---- MODULE Spec2Model ----
(***************************************************************************)
(* A model of the retrieval-augmented precedent matching core of Verdix:   *)
(* the precedent store (CasePrecedent), the Kanoon sync orchestrator       *)
(* (KanoonService.fetchAndIndexCases and the syncKanoonCases and           *)
(* fetchSingleCase handlers), the vector store (VectorStore.indexCase,     *)
(* deleteIndex, searchSimilarCases) and the RAG orchestrator               *)
(* (analyzeWithRAG).                                                       *)
(*                                                                         *)
(* The precedent store is modelled as the sequence of the documents the    *)
(* service code writes, in insertion order, with the fields of the schema  *)
(* the code reads and writes: caseNumber, embedding, indexed.              *)
(***************************************************************************)
EXTENDS Integers, Sequences, FiniteSets, TLC

\* ------------------------------------------------------------------ bounds
\* longest list of queries handed to fetchAndIndexCases
MaxQueries == 2
\* most hits one search answer carries
MaxHits == 2
\* largest per-query limit
MaxLimit == 2
\* upstream document ids are 1..MaxDocId
MaxDocId == 2
\* fetchSingleCase requests served in one behaviour
MaxSingle == 1

\* --------------------------------------------------------------- constants
\* JavaScript undefined for an identifier (data.id absent, no docid in a record)
Undefined == 0

DocIds == 1..MaxDocId
Queries == {"q1", "q2"}
\* data.caseid values the upstream may send
CaseIds == {"A", "B"}

Min(a, b) == IF a < b THEN a ELSE b

\* the embedding field of a stored document: present with the value null, or
\* present with an array of numbers (kind "absent" would be a document without
\* the field)
NullEmbedding == [kind |-> "null", v |-> <<>>]
Vec(s) == [kind |-> "array", v |-> s]
\* a similarity is the number num / den, den > 0
Zero == [num |-> 0, den |-> 1]
\* vectors the embedding API may answer (their magnitudes are whole numbers, so
\* that Math.sqrt is exact on them)
Vectors == {<<1, 0>>, <<0, 1>>, <<3, 4>>}
\* largest k given to searchSimilarCases
MaxK == 3
\* case numbers of the documents created while the vector store is exercised
IndexCaseIds == {"A", "B", "C"}

VARIABLES
    store,          \* CasePrecedent collection, in insertion order
    queries,        \* fetchAndIndexCases: argument queries
    limit,          \* fetchAndIndexCases: argument limit
    strictQuery,    \* the Mongoose of the build strips undeclared paths from filters
    pc,             \* position of the sync request
    qi,             \* index of the current query (for .. of queries)
    hi,             \* index i of the current hit, 1-based
    docs,           \* searchResults.docs of the current query (tids)
    caseData,       \* caseData of the current hit
    stats,          \* fetchAndIndexCases: stats
    indexedCases,   \* fetchAndIndexCases: indexedCases (the _id of each)
    failedCases,    \* fetchAndIndexCases: failedCases
    result,         \* the value fetchAndIndexCases returned
    searchedLog,    \* history: each search made, [pos, hits]; hits = -1: it threw
    attemptLog,     \* history: <<query position, hit index>> of each detail fetch
    inserted,       \* history: records this batch inserted into the store
    delayed,        \* history: rate-limit waits of this batch that have elapsed
    pcF,            \* position of the fetchSingleCase request
    fData,          \* fetchSingleCase: caseData
    fId,            \* fetchSingleCase: savedCase._id
    singles,        \* fetchSingleCase requests served so far
    searchOut,      \* the outcome of the last searchSimilarCases call
    caseType,       \* analyzeWithRAG: argument caseType (the hint)
    apiKey,         \* process.env.XAI_API_KEY is set
    pcA,            \* position of the analyzeWithRAG call
    finalCaseType,  \* analyzeWithRAG: finalCaseType
    retrievedCases, \* analyzeWithRAG: retrievedCases
    liveQueries,    \* analyzeWithRAG: liveQueries
    topLiveDocs,    \* analyzeWithRAG: topLiveDocs
    analysis,       \* analyzeWithRAG: analysis (the parsed response)
    analyzeResult,  \* the value analyzeWithRAG returned, or the error it threw
    called,         \* history: the steps the call has made
    failed,         \* history: the steps whose call threw
    augmentedPrompt, \* analyzeWithRAG: augmentedPrompt (its precedent block)
    responseText,   \* analyzeWithRAG: responseText
    lawyers,        \* Lawyer collection, in natural order
    recommendedLawyers, \* findBestLawyers: return value
    httpStatus,     \* analyzeCaseWithRAG: status of the answer, 0 before it
    cosA,           \* cosineSimilarity: argument vecA
    cosB,           \* cosineSimilarity: argument vecB
    similarity,     \* cosineSimilarity: return value, or "error"
    kanoonLog,      \* history: the KanoonService calls made and their outcomes
    caseDoc,        \* the Case document analyzeCaseWithRAG reads and saves
    pcR,            \* position of the reindexing run
    runKind,        \* the run: "indexAllCases" or "reindexAllKanoonCases"
    selected,       \* the run: the documents its find answered (the _id of each)
    ri,             \* the run: index of the current document, 1-based
    indexLog,       \* history: each indexCase call of the run, [id, ok]
    runResult,      \* what the run returned or answered
    runStart,       \* history: the documents without a vector when the find of the run ran
    apiData,        \* the response data an extractor of KanoonService is given
    extracted,      \* what the extractor returned
    vectorStore,    \* the module's singleton: 0 for null, else the instance
    created,        \* history: how many VectorStore were constructed
    initCalls,      \* history: how many calls of initialize() were started
    initPhase,      \* where initialize() of the instance is
    initialized,    \* this.initialized of the instance
    pcG,            \* where each caller of getVectorStore is
    received        \* what getVectorStore resolved to for each caller

syncVars == <<queries, limit, strictQuery, pc, qi, hi, docs, caseData, stats,
              indexedCases, failedCases, result, searchedLog, attemptLog, inserted,
              delayed>>
singleVars == <<pcF, fData, fId, singles>>
analyzeVars == <<caseType, apiKey, pcA, finalCaseType, retrievedCases,
                 liveQueries, topLiveDocs, analysis, analyzeResult, called, failed,
                 augmentedPrompt, responseText, lawyers, recommendedLawyers,
                 httpStatus>>
pureVars == <<cosA, cosB, similarity, kanoonLog>>
reindexVars == <<pcR, runKind, selected, ri, indexLog, runResult, runStart>>
extractVars == <<apiData, extracted>>
singletonVars == <<vectorStore, created, initCalls, initPhase, initialized, pcG, received>>
otherVars == <<caseDoc, reindexVars, extractVars, singletonVars>>
vars == <<store, syncVars, singleVars, searchOut, analyzeVars, pureVars,
          otherVars>>

\* ------------------------------------------------- KanoonService (parsing)
\* _parseCaseResponse: the fields of the parsed case the store code reads.
\* data.id may be absent (Undefined); data.caseid may be absent ("N/A").
KanoonUrl(id) == <<"https://indiankanoon.org/doc", id>>

parseCaseResponse(data) ==
    [sourceId   |-> data.id,
     kanoonUrl  |-> KanoonUrl(data.id),
     caseNumber |-> IF data.caseid = "" THEN "N/A" ELSE data.caseid]

\* what the upstream may answer for document tid with status 200
Responses(tid) == [id : {tid}, caseid : CaseIds]

\* how a request of the service can fail: validateConfiguration throws for a
\* missing token, the upstream answers a status that axios rejects, the
\* request times out, or the answer of status 200 carries no data
KanoonFailures == {"no token", "403", "404", "500", "timeout", "invalid"}

\* error.message of the error the catch of the service receives
upstreamMessage(e) ==
    CASE e = "no token" -> "KANOON_API_TOKEN not configured!"
      [] e = "invalid"  -> "Invalid response from Kanoon API"
      [] e = "timeout"  -> "timeout of 30000ms exceeded"
      [] OTHER          -> "Request failed with status code " \o e

\* error.response?.status of that error
responseStatus(e) == IF e \in {"403", "404", "500"} THEN e ELSE "none"

AuthenticationFailed == "Kanoon API: Authentication failed. Check your API token."
DocumentNotFound(docid) == "Kanoon API: Document not found: " \o ToString(docid)

\* error.message of a failed searchCases call, by the upstream's failure
SearchErrors == {"403", "timeout"}
searchErrorMessage(e) ==
    IF responseStatus(e) = "403" THEN AuthenticationFailed
    ELSE "Failed to search Kanoon API: " \o upstreamMessage(e)

\* a catch of fetchCaseDetails without the 404 branch
fetchErrorMessageRethrows(e, docid) ==
    IF responseStatus(e) = "403" THEN AuthenticationFailed
    ELSE upstreamMessage(e)

\* error.message of a failed fetchCaseDetails(docid) call
FetchErrors == {"403", "404", "timeout"}
fetchErrorMessage(e, docid) ==
    CASE responseStatus(e) = "403" -> AuthenticationFailed
      [] responseStatus(e) = "404" -> DocumentNotFound(docid)
      [] OTHER                     -> upstreamMessage(e)

\* ------------------------------------------------------- CasePrecedent store
\* the paths casePrecedentSchema declares, of those the model follows
SchemaPaths == {"caseNumber", "embedding", "indexed"}

\* CasePrecedent.findOne({$or: [{sourceId}, {kanoonUrl}]}) on the collection s.
\* The schema declares neither path and no stored document carries either
\* field. A build whose Mongoose casts filters strictly strips both clauses, and
\* the emptied filter matches the first document of the collection; any other
\* build sends the filter as written, and it matches no document. The answer
\* is the _id found, Undefined for null.
findOne(s, c) ==
    IF strictQuery
    THEN IF Len(s) > 0 THEN 1 ELSE Undefined
    ELSE LET hits == {i \in 1..Len(s) :
                         \/ /\ "sourceId" \in SchemaPaths
                            /\ s[i].origin = c.sourceId
                         \/ /\ "kanoonUrl" \in SchemaPaths
                            /\ KanoonUrl(s[i].origin) = c.kanoonUrl}
         IN IF hits = {} THEN Undefined
            ELSE CHOOSE i \in hits : \A j \in hits : i <= j

\* the unique index on caseNumber rejects the insert (E11000)
duplicateKey(s, c) == \E i \in 1..Len(s) : s[i].caseNumber = c.caseNumber

DuplicateKeyMessage == "E11000 duplicate key error"

\* new CasePrecedent(caseData).save(): the schema is strict, so of the fields
\* of caseData the document keeps those the schema declares (caseNumber here;
\* sourceId and kanoonUrl are dropped), with the defaults embedding: null and
\* indexed: false. origin is history, not a stored field: the sourceId of the
\* payload the document was built from.
newDocument(s, c) ==
    [_id        |-> Len(s) + 1,
     caseNumber |-> c.caseNumber,
     embedding  |-> NullEmbedding,
     indexed    |-> FALSE,
     origin     |-> c.sourceId]

save(s, c) == Append(s, newDocument(s, c))

\* VectorStore.indexCase, after createEmbedding answered vec:
\* findByIdAndUpdate(_id, {embedding})
setEmbedding(s, id, vec) ==
    [s EXCEPT ![id] = [@ EXCEPT !.embedding = Vec(vec)]]

\* ------------------------------------------ KanoonService.fetchAndIndexCases
ZeroStats == [searchedQueries |-> 0, casesFound |-> 0, casesFetched |-> 0,
              casesIndexed |-> 0, errors |-> 0]

NoCase == [sourceId |-> Undefined, kanoonUrl |-> KanoonUrl(Undefined),
           caseNumber |-> ""]

NoResult == [success |-> FALSE, stats |-> ZeroStats, indexed |-> 0, failed |-> 0,
             cases |-> <<>>, errors |-> <<>>]

QueryLists == {q \in UNION {[1..n -> Queries] : n \in 1..MaxQueries} : q[1] = "q1"}
HitLists == UNION {[1..n -> DocIds] : n \in 0..MaxHits}

NoSearch == [status |-> "none", k |-> 0, results |-> <<>>, scanned |-> {}]

\* ---------------------------------------------------- analyzeWithRAG values
\* a JavaScript value that is null or a string
Null == [kind |-> "null", v |-> ""]
Str(t) == [kind |-> "string", v |-> t]
\* the categories of the classification prompt the model draws answers from
Categories == {"Criminal", "Civil"}
\* the caseType arguments analyzeWithRAG is called with
Hints == {Null, Str(""), Str("General"), Str("Criminal")}

NoAnalysis == [suggestedIPCs |-> <<>>, confidence |-> 0, riskLevel |-> "",
               analysis |-> [kind |-> "none", tokens |-> <<>>]]
NoAnalyzeResult == [status |-> "none", success |-> FALSE, caseType |-> "",
                    analysis |-> NoAnalysis, retrievedCases |-> <<>>,
                    recommendedLawyers |-> <<>>]

\* no response text yet
NoText == [kind |-> "none", tokens |-> <<>>]

\* a Case document that was never analyzed; analyzedAt counts the analyses
\* stored, in place of their dates
NoCaseDoc == [caseType |-> "",
              aiAnalysis |-> [suggestedIPCs |-> <<>>, confidence |-> 0,
                              riskLevel |-> "", analyzedAt |-> 0],
              similarCases |-> <<>>]
\* no reindexing run yet
NoRun == [status |-> "none", count |-> 0]
InitReindex ==
    /\ pcR = "idle"
    /\ runKind = ""
    /\ selected = <<>>
    /\ ri = 1
    /\ indexLog = <<>>
    /\ runResult = NoRun
    /\ runStart = {}
\* no extractor of KanoonService has been given data
NoData == [kind |-> "none"]
NoExtract ==
    /\ apiData = NoData
    /\ extracted = NoData
\* callers of getVectorStore in flight at once
MaxCallers == 3
Callers == 1..MaxCallers
\* nothing was resolved to a caller
NoInstance == [instance |-> 0, completed |-> FALSE, initialized |-> FALSE]
\* let vectorStore = null, and no call of getVectorStore yet
InitSingleton ==
    /\ vectorStore = 0
    /\ created = 0
    /\ initCalls = 0
    /\ initPhase = "none"
    /\ initialized = FALSE
    /\ pcG = [c \in Callers |-> "idle"]
    /\ received = [c \in Callers |-> NoInstance]
NoOther == caseDoc = NoCaseDoc /\ InitReindex /\ NoExtract /\ InitSingleton

\* no cosineSimilarity call and no KanoonService call has been made
NoPure ==
    /\ cosA = NullEmbedding
    /\ cosB = NullEmbedding
    /\ similarity = Zero
    /\ kanoonLog = <<>>

\* no analyzeWithRAG call is under way
IdleAnalyze ==
    /\ caseType = Null
    /\ apiKey = TRUE
    /\ pcA = "idle"
    /\ retrievedCases = <<>>
    /\ liveQueries = <<>>
    /\ topLiveDocs = <<>>
    /\ analysis = NoAnalysis
    /\ analyzeResult = NoAnalyzeResult
    /\ called = {}
    /\ failed = {}
    /\ augmentedPrompt = <<>>
    /\ recommendedLawyers = <<>>
    /\ httpStatus = 0

\* no analysis has been requested
NoAnalyze ==
    /\ IdleAnalyze
    /\ finalCaseType = ""
    /\ responseText = NoText
    /\ lawyers = <<>>

InitSync ==
    /\ pc = "search"
    /\ qi = 1
    /\ hi = 1
    /\ docs = <<>>
    /\ caseData = NoCase
    /\ stats = ZeroStats
    /\ indexedCases = <<>>
    /\ failedCases = <<>>
    /\ result = NoResult
    /\ searchedLog = <<>>
    /\ attemptLog = <<>>
    /\ inserted = 0
    /\ delayed = 0

InitSingle ==
    /\ pcF = "idle"
    /\ fData = NoCase
    /\ fId = Undefined
    /\ singles = 0

\* an empty collection, a sync request about to start, no other request yet
Init ==
    /\ store = <<>>
    /\ queries \in QueryLists
    /\ limit \in 1..MaxLimit
    /\ strictQuery \in BOOLEAN
    /\ InitSync
    /\ InitSingle
    /\ searchOut = NoSearch
    /\ NoPure
    /\ NoOther
    /\ NoAnalyze

\* a loop header that starts the fetch of the next hit of the query at once
NextHitNoDelay ==
    /\ caseData' = NoCase
    /\ IF hi + 1 <= Min(Len(docs), limit)
       THEN /\ hi' = hi + 1
            /\ pc' = "fetch"
            /\ UNCHANGED <<qi, docs>>
       ELSE /\ hi' = 1
            /\ pc' = "search"
            /\ qi' = qi + 1
            /\ docs' = <<>>

\* the header of the inner for loop: the next hit of this query while
\* i < Math.min(docs.length, limit), else the next query; doc and caseData are
\* locals of the loop body
NextHit ==
    /\ caseData' = NoCase
    /\ IF hi + 1 <= Min(Len(docs), limit)
       THEN /\ hi' = hi + 1
            /\ pc' = "delay"
            /\ UNCHANGED <<qi, docs>>
       ELSE /\ hi' = 1
            /\ pc' = "search"
            /\ qi' = qi + 1
            /\ docs' = <<>>

\* an outer catch that records the failure and leaves the loop
SearchThrewAborts(e) ==
    /\ failedCases' = Append(failedCases,
           [query |-> queries[qi], docid |-> Undefined,
            error |-> searchErrorMessage(e)])
    /\ stats' = [stats EXCEPT !.searchedQueries = @ + 1, !.errors = @ + 1]
    /\ qi' = Len(queries) + 1
    /\ UNCHANGED <<pc, hi, docs>>

\* the outer catch: the query's failure is recorded and the loop goes on
SearchThrew(e) ==
    /\ failedCases' = Append(failedCases,
           [query |-> queries[qi], docid |-> Undefined,
            error |-> searchErrorMessage(e)])
    /\ stats' = [stats EXCEPT !.searchedQueries = @ + 1, !.errors = @ + 1]
    /\ qi' = qi + 1
    /\ UNCHANGED <<pc, hi, docs>>

\* one iteration of the outer loop up to the first await after searchCases
SyncSearch ==
    /\ pc = "search"
    /\ qi <= Len(queries)
    /\ \/ \E e \in SearchErrors :
            /\ SearchThrew(e)
            /\ searchedLog' = Append(searchedLog, [pos |-> qi, hits |-> -1])
       \/ \E d \in HitLists :
            /\ searchedLog' = Append(searchedLog, [pos |-> qi, hits |-> Len(d)])
            /\ UNCHANGED failedCases
            /\ IF Len(d) = 0
               THEN \* no results: continue
                    /\ stats' = [stats EXCEPT !.searchedQueries = @ + 1]
                    /\ qi' = qi + 1
                    /\ UNCHANGED <<pc, hi, docs>>
               ELSE /\ stats' = [stats EXCEPT !.searchedQueries = @ + 1,
                                              !.casesFound = @ + Len(d)]
                    /\ hi' = 1
                    /\ IF 1 <= Min(Len(d), limit)
                       THEN pc' = "delay" /\ qi' = qi /\ docs' = d
                       ELSE pc' = "search" /\ qi' = qi + 1 /\ docs' = <<>>
    /\ UNCHANGED <<store, queries, limit, strictQuery, caseData, indexedCases, result,
                   attemptLog, inserted, singleVars, searchOut, analyzeVars, pureVars, otherVars,
                   delayed>>

\* await new Promise(resolve => setTimeout(resolve, this.rateLimitDelay))
SyncDelay ==
    /\ pc = "delay"
    /\ pc' = "fetch"
    /\ delayed' = delayed + 1
    /\ UNCHANGED <<store, queries, limit, strictQuery, qi, hi, docs, caseData, stats,
                   indexedCases, failedCases, result, searchedLog, attemptLog, inserted, singleVars, searchOut, analyzeVars, pureVars, otherVars>>

\* an inner catch that records the failed hit and drops the rest of the query
HitFailedAborts(msg) ==
    /\ failedCases' = Append(failedCases,
           [query |-> queries[qi], docid |-> docs[hi], error |-> msg])
    /\ stats' = [stats EXCEPT !.errors = @ + 1]
    /\ caseData' = NoCase
    /\ hi' = 1
    /\ pc' = "search"
    /\ qi' = qi + 1
    /\ docs' = <<>>

\* the inner catch: record the failed hit and go on
HitFailed(msg) ==
    /\ failedCases' = Append(failedCases,
           [query |-> queries[qi], docid |-> docs[hi], error |-> msg])
    /\ stats' = [stats EXCEPT !.errors = @ + 1]
    /\ NextHit

\* await this.fetchCaseDetails(doc.tid, ...)
SyncFetch ==
    /\ pc = "fetch"
    /\ attemptLog' = Append(attemptLog, <<qi, hi>>)
    /\ \/ \E e \in FetchErrors : HitFailed(fetchErrorMessage(e, docs[hi]))
       \/ \E data \in Responses(docs[hi]) :
            /\ caseData' = parseCaseResponse(data)
            /\ stats' = [stats EXCEPT !.casesFetched = @ + 1]
            /\ pc' = "check"
            /\ UNCHANGED <<qi, hi, docs, failedCases>>
    /\ UNCHANGED <<store, queries, limit, strictQuery, indexedCases, result, searchedLog, inserted, singleVars, searchOut, analyzeVars, pureVars, otherVars,
                   delayed>>

\* _saveCaseToDatabase up to its first await: CasePrecedent.findOne; an existing
\* case is returned, pushed to indexedCases and counted
SyncCheck ==
    /\ pc = "check"
    /\ LET existingCase == findOne(store, caseData)
       IN IF existingCase # Undefined
          THEN /\ indexedCases' = Append(indexedCases, existingCase)
               /\ stats' = [stats EXCEPT !.casesIndexed = @ + 1]
               /\ NextHit
          ELSE /\ pc' = "save"
               /\ UNCHANGED <<qi, hi, docs, caseData, indexedCases, stats>>
    /\ UNCHANGED <<store, queries, limit, strictQuery, failedCases, result, searchedLog,
                   attemptLog, inserted, singleVars, searchOut, analyzeVars, pureVars, otherVars,
                   delayed>>

\* _saveCaseToDatabase: newCase.save(), then back in the loop body
SyncSave ==
    /\ pc = "save"
    /\ IF duplicateKey(store, caseData)
       THEN /\ HitFailed(DuplicateKeyMessage)
            /\ UNCHANGED <<store, indexedCases, inserted>>
       ELSE /\ store' = save(store, caseData)
            /\ indexedCases' = Append(indexedCases, Len(store) + 1)
            /\ stats' = [stats EXCEPT !.casesIndexed = @ + 1]
            /\ inserted' = inserted + 1
            /\ NextHit
            /\ UNCHANGED failedCases
    /\ UNCHANGED <<queries, limit, strictQuery, result, searchedLog, attemptLog,
                   singleVars, searchOut, analyzeVars, pureVars, otherVars,
                   delayed>>

\* fetchAndIndexCases returns
SyncReturn ==
    /\ pc = "search"
    /\ qi > Len(queries)
    /\ result' = [success |-> Len(indexedCases) > 0,
                  stats   |-> stats,
                  indexed |-> Len(indexedCases),
                  failed  |-> Len(failedCases),
                  cases   |-> indexedCases,
                  errors  |-> failedCases]
    /\ pc' = "done"
    /\ UNCHANGED <<store, queries, limit, strictQuery, qi, hi, docs, caseData, stats,
                   indexedCases, failedCases, searchedLog, attemptLog,
                   inserted, singleVars, searchOut, analyzeVars, pureVars, otherVars,
                   delayed>>

\* ------------------------------------------------------------ fetchSingleCase
\* fetchSingleCase up to CasePrecedent.create: the detail fetch of caseUrl
FetchSingleRequest ==
    /\ pcF = "idle"
    /\ singles < MaxSingle
    /\ singles' = singles + 1
    /\ \E tid \in DocIds :
        \/ \E e \in FetchErrors :
            \* fetchCaseDetails throws: 500
            UNCHANGED <<pcF, fData>>
        \/ \E data \in Responses(tid) :
            /\ fData' = parseCaseResponse(data)
            /\ pcF' = "create"
    /\ UNCHANGED <<store, fId, syncVars, searchOut, analyzeVars, pureVars, otherVars>>

\* await CasePrecedent.create(caseData): no existence check
FetchSingleCreate ==
    /\ pcF = "create"
    /\ IF duplicateKey(store, fData)
       THEN /\ pcF' = "idle"
            /\ UNCHANGED <<store, fId>>
       ELSE /\ store' = save(store, fData)
            /\ fId' = Len(store) + 1
            /\ pcF' = "index"
    /\ UNCHANGED <<fData, singles, syncVars, searchOut, analyzeVars, pureVars, otherVars>>

\* await vectorStore.indexCase(savedCase)
FetchSingleIndex ==
    /\ pcF = "index"
    /\ pcF' = "idle"
    /\ \/ \E vec \in Vectors : store' = setEmbedding(store, fId, vec)
       \/ UNCHANGED store
    /\ UNCHANGED <<fData, fId, singles, syncVars, searchOut, analyzeVars, pureVars, otherVars>>

\* ------------------------------------------------------------- VectorStore
RECURSIVE Dot(_, _)
\* vecA.reduce((sum, a, i) => sum + a * vecB[i], 0)
Dot(a, b) == IF a = <<>> THEN 0 ELSE Head(a) * Head(b) + Dot(Tail(a), Tail(b))

\* Math.sqrt on the squares the model's vectors produce
Sqrt(n) == CHOOSE r \in 0..n : r * r = n


\* a cosineSimilarity without the test of the magnitudes: 0 / 0 is NaN, written
\* as the fraction of denominator 0
cosineSimilarityUnguarded(vecA, vecB) ==
    IF vecA.kind # "array" \/ vecB.kind # "array" \/ Len(vecA.v) # Len(vecB.v)
    THEN Zero
    ELSE [num |-> Dot(vecA.v, vecB.v),
          den |-> Sqrt(Dot(vecA.v, vecA.v)) * Sqrt(Dot(vecB.v, vecB.v))]

\* cosineSimilarity(vecA, vecB); !vec holds of null
cosineSimilarity(vecA, vecB) ==
    IF vecA.kind # "array" \/ vecB.kind # "array" \/ Len(vecA.v) # Len(vecB.v)
    THEN Zero
    ELSE LET dotProduct == Dot(vecA.v, vecB.v)
             magnitudeA == Sqrt(Dot(vecA.v, vecA.v))
             magnitudeB == Sqrt(Dot(vecB.v, vecB.v))
         IN IF magnitudeA = 0 \/ magnitudeB = 0
            THEN Zero
            ELSE [num |-> dotProduct, den |-> magnitudeA * magnitudeB]

\* the sign of the comparator (a, b) => b.similarity - a.similarity
compareSimilarity(a, b) ==
    b.similarity.num * a.similarity.den - a.similarity.num * b.similarity.den

RECURSIVE insertSorted(_, _)
\* Array.prototype.sort is stable: x goes behind every element the comparator
\* does not order after it
insertSorted(x, s) ==
    IF s = <<>> THEN <<x>>
    ELSE IF compareSimilarity(Head(s), x) <= 0
         THEN <<Head(s)>> \o insertSorted(x, Tail(s))
         ELSE <<x>> \o s

RECURSIVE sortBySimilarity(_)
sortBySimilarity(s) ==
    IF s = <<>> THEN <<>>
    ELSE insertSorted(s[Len(s)], sortBySimilarity(SubSeq(s, 1, Len(s) - 1)))

\* the filter {embedding: {$exists: true}}: the field is present, null or not
embeddingExists(d) == d.embedding.kind # "absent"

\* CasePrecedent.find({embedding: {$exists: true}})
findIndexed(s) == SelectSeq(s, embeddingExists)

\* indexedCases.map(...).sort(...).slice(0, k)
topResults(indexed, queryEmbedding, k) ==
    LET similarities ==
            [i \in 1..Len(indexed) |->
                [caseId     |-> indexed[i]._id,
                 similarity |-> cosineSimilarity(queryEmbedding, indexed[i].embedding)]]
        sorted == sortBySimilarity(similarities)
    IN SubSeq(sorted, 1, Min(k, Len(sorted)))

\* history: the _id of the documents that carry a non-null embedding
embedded(s) == {i \in 1..Len(s) : s[i].embedding.kind = "array"}

\* a deleteIndex that deletes the document
dropRecord(s, id) == SubSeq(s, 1, id - 1) \o SubSeq(s, id + 1, Len(s))

\* VectorStore.deleteIndex: findByIdAndUpdate(caseId, {embedding: null})
clearEmbedding(s, id) ==
    [s EXCEPT ![id] = [@ EXCEPT !.embedding = NullEmbedding]]

\* a document arrives in the collection: CasePrecedent.create(caseData)
IndexCreate ==
    /\ \E c \in [id : DocIds, caseid : IndexCaseIds] :
        /\ ~duplicateKey(store, parseCaseResponse(c))
        /\ store' = save(store, parseCaseResponse(c))
    /\ searchOut' = NoSearch
    /\ UNCHANGED <<syncVars, singleVars, analyzeVars, pureVars, otherVars>>

\* VectorStore.indexCase(caseData) on a stored document
IndexCase ==
    /\ \E id \in 1..Len(store) :
        \/ \E vec \in Vectors : store' = setEmbedding(store, id, vec)
        \/ \* createEmbedding throws: nothing is written
           UNCHANGED store
    /\ searchOut' = NoSearch
    /\ UNCHANGED <<syncVars, singleVars, analyzeVars, pureVars, otherVars>>

\* VectorStore.deleteIndex(caseId)
DeleteIndex ==
    /\ \E id \in 1..Len(store) : store' = clearEmbedding(store, id)
    /\ searchOut' = NoSearch
    /\ UNCHANGED <<syncVars, singleVars, analyzeVars, pureVars, otherVars>>

\* the outcomes of VectorStore.searchSimilarCases(query, k) on the collection s:
\* [] when the find matches nothing, else the top k by similarity to the
\* embedding of the query, or the error createEmbedding threw
searchSimilarCases(s, k) ==
    LET indexed == findIndexed(s)
    IN IF Len(indexed) = 0
       THEN {[status |-> "ok", k |-> k, results |-> <<>>, scanned |-> embedded(s)]}
       ELSE {[status |-> "ok", k |-> k,
              results |-> topResults(indexed, Vec(q), k),
              scanned |-> embedded(s)] : q \in Vectors}
            \cup {[status |-> "error", k |-> k, results |-> <<>>,
                   scanned |-> embedded(s)]}

\* a call of VectorStore.searchSimilarCases(query, k)
SearchSimilarCases ==
    /\ \E k \in 1..MaxK : \E o \in searchSimilarCases(store, k) : searchOut' = o
    /\ UNCHANGED <<store, syncVars, singleVars, analyzeVars, pureVars, otherVars>>

InitIndex ==
    /\ store = <<>>
    /\ queries = <<"q1">>
    /\ limit = 1
    /\ strictQuery = FALSE
    /\ InitSync
    /\ InitSingle
    /\ searchOut = NoSearch
    /\ NoPure
    /\ NoOther
    /\ NoAnalyze

NextIndex ==
    \/ IndexCreate
    \/ IndexCase
    \/ DeleteIndex
    \/ SearchSimilarCases

SpecIndex == InitIndex /\ [][NextIndex]_vars

\* ------------------------------------------------- reindexing the collection
\* most documents in the collection while it is reindexed
MaxDocs == 2
\* findByIdAndUpdate(caseId, {indexed: true})
setIndexed(s, id) == [s EXCEPT ![id] = [@ EXCEPT !.indexed = TRUE]]

\* history: the _id of the documents that carry no vector
unembedded(s) == {i \in 1..Len(s) : s[i].embedding.kind # "array"}

\* the filter {embedding: {$exists: false}}
embeddingMissing(d) == d.embedding.kind = "absent"
\* the _id of the documents of s that f matches, in natural order
idsWhere(s, f(_)) ==
    LET hits == SelectSeq(s, f) IN [i \in 1..Len(hits) |-> hits[i]._id]

\* CasePrecedent.find({embedding: {$exists: false}}) of indexAllCases
findUnembedded(s) == idsWhere(s, embeddingMissing)

\* CasePrecedent.find({source: 'IndianKanoon'}): the schema declares no source,
\* so the emptied filter matches every document, or the filter as written
\* matches none
findKanoonCases(s) ==
    IF strictQuery THEN idsWhere(s, LAMBDA d : TRUE) ELSE <<>>

\* case numbers of the documents of the collections built below
IndexCaseIds4 == <<"A", "B", "C", "D">>
\* the parsed case the n-th of these documents is created from
StoredCase(n) == parseCaseResponse([id |-> n, caseid |-> IndexCaseIds4[n]])

\* the next document arrives in the collection: CasePrecedent.create(caseData)
ReindexCreate ==
    /\ Len(store) < MaxDocs
    /\ store' = save(store, StoredCase(Len(store) + 1))
    /\ searchOut' = NoSearch
    /\ UNCHANGED <<syncVars, singleVars, analyzeVars, pureVars, otherVars>>

\* indexCaseForRAG of the controller: 404 for no such document; indexCase,
\* and 500 when it throws; then findByIdAndUpdate(caseId, {indexed: true})
IndexCaseForRAG ==
    /\ \E caseId \in 1..MaxDocs :
        IF caseId > Len(store)
        THEN UNCHANGED store
        ELSE \/ \E vec \in Vectors :
                  store' = setIndexed(setEmbedding(store, caseId, vec), caseId)
             \/ UNCHANGED store
    /\ searchOut' = NoSearch
    /\ UNCHANGED <<syncVars, singleVars, analyzeVars, pureVars, otherVars>>

\* VectorStore.reindexCase(caseId): 'Case not found' is thrown for no such
\* document, else indexCase
ReindexCase ==
    /\ \E caseId \in 1..MaxDocs :
        IF caseId > Len(store)
        THEN UNCHANGED store
        ELSE \/ \E vec \in Vectors : store' = setEmbedding(store, caseId, vec)
             \/ UNCHANGED store
    /\ searchOut' = NoSearch
    /\ UNCHANGED <<syncVars, singleVars, analyzeVars, pureVars, otherVars>>

\* the find of a run threw: indexAllCases rethrows, the controller answers 500
RunFindThrew ==
    /\ pcR' = "threw"
    /\ runResult' = [status |-> "threw", count |-> 0]
    /\ UNCHANGED <<selected, runStart>>

\* VectorStore.indexAllCases up to its loop
IndexAllCasesStart ==
    /\ pcR = "idle"
    /\ runKind' = "indexAllCases"
    /\ \/ RunFindThrew
       \/ /\ selected' = findUnembedded(store)
          /\ runStart' = unembedded(store)
          /\ pcR' = "loop"
          /\ UNCHANGED runResult
    /\ UNCHANGED <<store, syncVars, singleVars, searchOut, analyzeVars, pureVars,
                   caseDoc, extractVars, singletonVars, ri, indexLog>>

\* reindexAllKanoonCases of the controller up to its loop: 400 when the find
\* answers no document
ReindexAllStart ==
    /\ pcR = "idle"
    /\ runKind' = "reindexAllKanoonCases"
    /\ \/ RunFindThrew
       \/ /\ selected' = findKanoonCases(store)
          /\ runStart' = unembedded(store)
          /\ IF Len(findKanoonCases(store)) = 0
             THEN /\ pcR' = "done"
                  /\ runResult' = [status |-> "400", count |-> 0]
             ELSE /\ pcR' = "loop"
                  /\ UNCHANGED runResult
    /\ UNCHANGED <<store, syncVars, singleVars, searchOut, analyzeVars, pureVars,
                   caseDoc, extractVars, singletonVars, ri, indexLog>>

\* a loop whose catch ends the run at the first document that fails
RunStepAborts(id) ==
    \/ \E vec \in Vectors :
          /\ store' = setEmbedding(store, id, vec)
          /\ indexLog' = Append(indexLog, [id |-> id, ok |-> TRUE])
          /\ ri' = ri + 1
    \/ /\ indexLog' = Append(indexLog, [id |-> id, ok |-> FALSE])
       /\ ri' = Len(selected) + 1
       /\ UNCHANGED store

\* one iteration of the loop of a run: indexCase on the document, whose
\* failure the catch of the iteration logs; the pause after every fifth
\* document is part of the iteration
RunStep(id) ==
    \/ \E vec \in Vectors :
          /\ store' = setEmbedding(store, id, vec)
          /\ indexLog' = Append(indexLog, [id |-> id, ok |-> TRUE])
          /\ ri' = ri + 1
    \/ /\ indexLog' = Append(indexLog, [id |-> id, ok |-> FALSE])
       /\ ri' = ri + 1
       /\ UNCHANGED store

ReindexStep ==
    /\ pcR = "loop"
    /\ ri <= Len(selected)
    /\ RunStep(selected[ri])
    /\ searchOut' = NoSearch
    /\ UNCHANGED <<syncVars, singleVars, analyzeVars, pureVars, caseDoc, extractVars, singletonVars, pcR,
                   runKind, selected, runResult, runStart>>

\* the run is over: indexAllCases returns cases.length, the controller
\* answers 200 with its total
ReindexReturn ==
    /\ pcR = "loop"
    /\ ri > Len(selected)
    /\ pcR' = "done"
    /\ runResult' = [status |-> "returned", count |-> Len(selected)]
    /\ UNCHANGED <<store, syncVars, singleVars, searchOut, analyzeVars, pureVars,
                   caseDoc, extractVars, singletonVars, runKind, selected, ri, indexLog, runStart>>

InitReindexing ==
    /\ store = <<>>
    /\ queries = <<"q1">>
    /\ limit = 1
    /\ strictQuery \in BOOLEAN
    /\ InitSync
    /\ InitSingle
    /\ searchOut = NoSearch
    /\ NoPure
    /\ NoOther
    /\ NoAnalyze

NextReindex ==
    \/ ReindexCreate
    \/ IndexCase
    \/ DeleteIndex
    \/ IndexCaseForRAG
    \/ ReindexCase
    \/ IndexAllCasesStart
    \/ ReindexAllStart
    \/ ReindexStep
    \/ ReindexReturn

SpecReindex == InitReindexing /\ [][NextReindex]_vars

\* every await of the loop settles (createEmbedding has a timeout of 30 s), so
\* an iteration that can run does run, and so does the return
SpecReindexLive ==
    SpecReindex /\ WF_vars(ReindexStep) /\ WF_vars(ReindexReturn)

\* ------------------------------------------------------------ findBestLawyers
\* .limit(3)
LawyerLimit == 3
\* most lawyers in the collection
MaxLawyers == 4
\* a Lawyer document, as far as findBestLawyers reads it
LawyerDocs ==
    [verificationStatus : {"verified", "pending"},
     specializations    : {{"Criminal"}, {"Civil"}},
     rating             : {4, 5},
     caseWon            : {0, 1}]
\* the Lawyer collections, in natural order
LawyerCollections == UNION {[1..n -> LawyerDocs] : n \in 0..MaxLawyers}
\* the case types findBestLawyers is asked for
LawyerCaseTypes == {"Criminal", "General"}

\* .sort({ rating: -1, caseWon: -1 }): a stands before b
ranksBefore(a, b) ==
    \/ a.rating > b.rating
    \/ a.rating = b.rating /\ a.caseWon > b.caseWon

RECURSIVE insertRanked(_, _)
insertRanked(x, q) ==
    IF q = <<>> THEN <<x>>
    ELSE IF ranksBefore(x, Head(q))
         THEN <<x>> \o q
         ELSE <<Head(q)>> \o insertRanked(x, Tail(q))

RECURSIVE sortRanked(_)
\* the sort of the query, ties in natural order
sortRanked(q) ==
    IF q = <<>> THEN <<>>
    ELSE insertRanked(q[Len(q)], sortRanked(SubSeq(q, 1, Len(q) - 1)))

\* the collection with the position of each document as its _id
withIds(ls) ==
    [i \in 1..Len(ls) |->
        [id |-> i, verificationStatus |-> ls[i].verificationStatus,
         specializations |-> ls[i].specializations,
         rating |-> ls[i].rating, caseWon |-> ls[i].caseWon]]

\* Lawyer.find(filter).sort({ rating: -1, caseWon: -1 }).limit(3)
topLawyers(q) ==
    LET sorted == sortRanked(q)
    IN SubSeq(sorted, 1, Min(LawyerLimit, Len(sorted)))

\* a lookup without the fallback query
findBestLawyersNoFallback(ls, type) ==
    LET specialists ==
            topLawyers(SelectSeq(withIds(ls), LAMBDA l :
                type \in l.specializations /\ l.verificationStatus = "verified"))
    IN [i \in 1..Len(specialists) |->
          [id |-> specialists[i].id, rating |-> specialists[i].rating,
           casesWon |-> specialists[i].caseWon]]

\* findBestLawyers(caseType) when its queries answer: the verified specialists
\* of the case type, else the verified lawyers, by rating then cases won
findBestLawyers(ls, type) ==
    LET specialists ==
            topLawyers(SelectSeq(withIds(ls), LAMBDA l :
                type \in l.specializations /\ l.verificationStatus = "verified"))
        verified ==
            topLawyers(SelectSeq(withIds(ls), LAMBDA l :
                l.verificationStatus = "verified"))
        found == IF Len(specialists) = 0 THEN verified ELSE specialists
    IN [i \in 1..Len(found) |->
          [id |-> found[i].id, rating |-> found[i].rating,
           casesWon |-> found[i].caseWon]]

\* the outcomes of findBestLawyers(caseType): the list found, or [] from the
\* catch when a query threw
lawyerLookup(ls, type) ==
    {[threw |-> FALSE, lawyers |-> findBestLawyers(ls, type)],
     [threw |-> TRUE, lawyers |-> <<>>]}

\* a call of findBestLawyers(finalCaseType)
FindBestLawyers ==
    /\ pcA = "idle"
    /\ "lawyers" \notin called
    /\ called' = called \cup {"lawyers"}
    /\ \E o \in lawyerLookup(lawyers, finalCaseType) :
        /\ recommendedLawyers' = o.lawyers
        /\ failed' = IF o.threw THEN failed \cup {"lawyers"} ELSE failed
    /\ UNCHANGED <<store, syncVars, singleVars, searchOut, pureVars, otherVars, caseType,
                   apiKey, pcA, finalCaseType, retrievedCases, liveQueries,
                   topLiveDocs, analysis, analyzeResult, augmentedPrompt,
                   responseText, lawyers, httpStatus>>

\* a lawyer lookup is about to be made
InitLawyers ==
    /\ store = <<>>
    /\ queries = <<"q1">>
    /\ limit = 1
    /\ strictQuery = FALSE
    /\ InitSync
    /\ InitSingle
    /\ searchOut = NoSearch
    /\ NoPure
    /\ NoOther
    /\ IdleAnalyze
    /\ responseText = NoText
    /\ finalCaseType \in LawyerCaseTypes
    /\ lawyers \in LawyerCollections

NextLawyers == FindBestLawyers

SpecLawyers == InitLawyers /\ [][NextLawyers]_vars

\* ----------------------------------------------------------- cosineSimilarity
\* longest vector given to cosineSimilarity
MaxDim == 2
\* largest component of such a vector, in absolute value
MaxComponent == 4
\* the vectors of whole magnitude up to these bounds, the empty one included
CosineVectors ==
    {v \in UNION {[1..n -> -MaxComponent..MaxComponent] : n \in 0..MaxDim} :
        \E r \in 0..(MaxDim * MaxComponent) : r * r = Dot(v, v)}
\* the arguments of cosineSimilarity: a missing vector, or a vector
CosineArguments == {NullEmbedding} \cup {Vec(v) : v \in CosineVectors}

\* cosineSimilarity(vecA, vecB)
CosineSimilarity ==
    /\ "cosineSimilarity" \notin called
    /\ called' = called \cup {"cosineSimilarity"}
    /\ similarity' = cosineSimilarity(cosA, cosB)
    /\ UNCHANGED <<store, syncVars, singleVars, searchOut, cosA, cosB, kanoonLog,
                   otherVars,
                   caseType, apiKey, pcA, finalCaseType, retrievedCases,
                   liveQueries, topLiveDocs, analysis, analyzeResult, failed,
                   augmentedPrompt, responseText, lawyers, recommendedLawyers,
                   httpStatus>>

\* two arguments are about to be compared
InitCosine ==
    /\ store = <<>>
    /\ queries = <<"q1">>
    /\ limit = 1
    /\ strictQuery = FALSE
    /\ InitSync
    /\ InitSingle
    /\ searchOut = NoSearch
    /\ NoAnalyze
    /\ cosA \in CosineArguments
    /\ cosB \in CosineArguments
    /\ similarity = Zero
    /\ kanoonLog = <<>>
    /\ NoOther

NextCosine == CosineSimilarity

SpecCosine == InitCosine /\ [][NextCosine]_vars

\* ------------------------------------------------ KanoonService._extractYear
\* new Date().getFullYear()
CurrentYear == 2026
\* a field of the response that is not there
Absent == [kind |-> "undefined"]
\* a string field, as its words in order; a word is the number its run of
\* digits reads as, 0 for a word without digits; no word: the empty string
Words(w) == [kind |-> "string", words |-> w]
\* a run of digits as long as the fields carry
MaxRun == 20191
\* the year, date and caseid fields _extractYear is given
YearFields == {Absent, [kind |-> "number", n |-> 0], [kind |-> "number", n |-> 2019]}
DateFields ==
    {Absent, Words(<<>>), Words(<<12, 0>>), Words(<<12, 5, 2018>>),
     Words(<<0, MaxRun, 2016>>), Words(<<0, 7>>)}
CaseIdFields ==
    {Absent, Words(<<>>), Words(<<0, 45>>), Words(<<0, 123, 2017>>)}
YearData == [year : YearFields, date : DateFields, caseid : CaseIdFields]

\* if (data.x): the field is there and is neither 0 nor ''
Truthy(f) ==
    \/ f.kind = "number" /\ f.n # 0
    \/ f.kind = "string" /\ f.words # <<>>

RECURSIVE firstFour(_)
\* the first four digits of a run of four digits or more
firstFour(n) == IF n < 10000 THEN n ELSE firstFour(n \div 10)

RECURSIVE yearMatch(_)
\* str.match(/(\d{4})/): the first four digits of the first run of four digits
\* or more, 0 for no match
yearMatch(w) ==
    IF w = <<>> THEN 0
    ELSE IF Head(w) >= 1000 THEN firstFour(Head(w))
         ELSE yearMatch(Tail(w))

\* _extractYear(data)
extractYear(data) ==
    IF Truthy(data.year) THEN data.year.n
    ELSE IF Truthy(data.date)
         THEN IF yearMatch(data.date.words) # 0
              THEN yearMatch(data.date.words) ELSE CurrentYear
         ELSE IF Truthy(data.caseid)
              THEN IF yearMatch(data.caseid.words) # 0
                   THEN yearMatch(data.caseid.words) ELSE CurrentYear
              ELSE CurrentYear

\* this._extractYear(data)
ExtractYear ==
    /\ extracted = NoData
    /\ extracted' = [kind |-> "year", year |-> extractYear(apiData)]
    /\ UNCHANGED <<store, syncVars, singleVars, searchOut, analyzeVars, pureVars,
                   caseDoc, reindexVars, singletonVars, apiData>>

\* a response is about to be parsed
InitYear ==
    /\ store = <<>>
    /\ queries = <<"q1">>
    /\ limit = 1
    /\ strictQuery = FALSE
    /\ InitSync
    /\ InitSingle
    /\ searchOut = NoSearch
    /\ NoPure
    /\ NoAnalyze
    /\ caseDoc = NoCaseDoc
    /\ InitReindex
    /\ apiData \in YearData
    /\ extracted = NoData
    /\ InitSingleton

NextYear == ExtractYear

SpecYear == InitYear /\ [][NextYear]_vars

\* ----------------------------------------- KanoonService._extractIPCSections
\* sections.size < 20: the text patterns add no section to a set of this size
sizeCap == 20
\* .slice(0, 15)
sliceEnd == 15
\* the longest data.ipc_sections
MaxStructured == 21
\* data.ipc_sections: the sections 1..n as strings, or a list that repeats one
StructuredLists ==
    {[i \in 1..n |-> i] : n \in 0..MaxStructured} \cup {<<7, 7, 3>>}
\* the captures of one pattern over the joined text, in the order of the text
TextMatches == {<<>>, <<2, 34, 2>>, <<101, 102, 103, 104, 105, 106>>}
\* the four patterns of _extractIPCSections
Patterns == 1..4
SectionData == [ipc_sections : StructuredLists, found : [Patterns -> TextMatches]]

\* Set.prototype.add: insertion order is kept, a member is not added again
setAdd(sections, x) ==
    IF \E i \in 1..Len(sections) : sections[i] = x THEN sections
    ELSE Append(sections, x)

RECURSIVE addStructured(_, _)
\* data.ipc_sections.forEach(s => sections.add(s))
addStructured(sections, list) ==
    IF list = <<>> THEN sections
    ELSE addStructured(setAdd(sections, Head(list)), Tail(list))

RECURSIVE addMatches(_, _)
\* while ((match = pattern.exec(textToSearch)) && sections.size < 20)
\*     sections.add(match[1].toString())
addMatches(sections, matches) ==
    IF matches = <<>> \/ Len(sections) >= sizeCap THEN sections
    ELSE addMatches(setAdd(sections, Head(matches)), Tail(matches))

RECURSIVE addPatterns(_, _, _)
\* for (const pattern of patterns)
addPatterns(sections, found, p) ==
    IF p > Len(found) THEN sections
    ELSE addPatterns(addMatches(sections, found[p]), found, p + 1)

\* Array.prototype.slice(0, n)
slice0(arr, n) == SubSeq(arr, 1, IF Len(arr) < n THEN Len(arr) ELSE n)

\* _extractIPCSections(data)
extractIPCSections(data) ==
    slice0(addPatterns(addStructured(<<>>, data.ipc_sections),
                       [p \in Patterns |-> data.found[p]], 1), sliceEnd)

\* this._extractIPCSections(data)
ExtractIPCSections ==
    /\ extracted = NoData
    /\ extracted' = [kind |-> "sections", sections |-> extractIPCSections(apiData)]
    /\ UNCHANGED <<store, syncVars, singleVars, searchOut, analyzeVars, pureVars,
                   caseDoc, reindexVars, singletonVars, apiData>>

\* a document is about to have its sections extracted
InitSections ==
    /\ store = <<>>
    /\ queries = <<"q1">>
    /\ limit = 1
    /\ strictQuery = FALSE
    /\ InitSync
    /\ InitSingle
    /\ searchOut = NoSearch
    /\ NoPure
    /\ NoAnalyze
    /\ caseDoc = NoCaseDoc
    /\ InitReindex
    /\ apiData \in SectionData
    /\ extracted = NoData
    /\ InitSingleton

NextSections == ExtractIPCSections

SpecSections == InitSections /\ [][NextSections]_vars

\* ------------------------------------------------------------ getVectorStore
\* return vectorStore: what the caller is resolved to, and where initialize()
\* of that instance is at that time
resolveTo(c) ==
    [received EXCEPT ![c] = [instance |-> vectorStore,
                             completed |-> initPhase = "completed",
                             initialized |-> initialized]]

\* getVectorStore() up to its await or its return: if (!vectorStore) the
\* instance is constructed and stored and initialize() starts, running up to
\* its await of countDocuments; else the instance is returned as it is
GetVectorStore(c) ==
    /\ pcG[c] = "idle"
    /\ IF vectorStore = 0
       THEN /\ vectorStore' = created + 1
            /\ created' = created + 1
            /\ initCalls' = initCalls + 1
            /\ initPhase' = "counting"
            /\ pcG' = [pcG EXCEPT ![c] = "initialize"]
            /\ UNCHANGED <<initialized, received>>
       ELSE /\ pcG' = [pcG EXCEPT ![c] = "done"]
            /\ received' = resolveTo(c)
            /\ UNCHANGED <<vectorStore, created, initCalls, initPhase, initialized>>

\* a caller calls getVectorStore
GetVectorStoreCall ==
    /\ \E c \in Callers : GetVectorStore(c)
    /\ UNCHANGED <<store, syncVars, singleVars, searchOut, analyzeVars, pureVars,
                   caseDoc, reindexVars, extractVars>>

\* countDocuments settles inside initialize(): this.initialized = true when
\* it resolved; when it rejected the catch logs and initialize() ends as well
InitializeSettles ==
    /\ initPhase = "counting"
    /\ initPhase' = "completed"
    /\ initialized' \in BOOLEAN
    /\ UNCHANGED <<vectorStore, created, initCalls, pcG, received>>
    /\ UNCHANGED <<store, syncVars, singleVars, searchOut, analyzeVars, pureVars,
                   caseDoc, reindexVars, extractVars>>

\* await vectorStore.initialize() is over for a caller: return vectorStore
GetVectorStoreReturn ==
    /\ \E c \in Callers :
        /\ pcG[c] = "initialize"
        /\ initPhase = "completed"
        /\ pcG' = [pcG EXCEPT ![c] = "done"]
        /\ received' = resolveTo(c)
    /\ UNCHANGED <<vectorStore, created, initCalls, initPhase, initialized>>
    /\ UNCHANGED <<store, syncVars, singleVars, searchOut, analyzeVars, pureVars,
                   caseDoc, reindexVars, extractVars>>

\* the server starts: no instance, and the callers are about to call
InitGetVectorStore ==
    /\ store = <<>>
    /\ queries = <<"q1">>
    /\ limit = 1
    /\ strictQuery = FALSE
    /\ InitSync
    /\ InitSingle
    /\ searchOut = NoSearch
    /\ NoPure
    /\ NoAnalyze
    /\ caseDoc = NoCaseDoc
    /\ InitReindex
    /\ NoExtract
    /\ InitSingleton

NextGetVectorStore ==
    \/ GetVectorStoreCall
    \/ InitializeSettles
    \/ GetVectorStoreReturn

SpecGetVectorStore == InitGetVectorStore /\ [][NextGetVectorStore]_vars

\* ------------------------------------------- KanoonService (failed requests)
\* calls of the service followed in one behaviour
MaxCalls == 3
\* what the upstream does with one request
UpstreamAnswers == {"200"} \cup KanoonFailures

\* this.maxRetries of the constructor
maxRetries == 3
\* the requests one call sends to the upstream: the one axios.post of its try,
\* which validateConfiguration precedes
requestsSent(upstream) == IF upstream = "no token" THEN 0 ELSE 1

\* the outcome of one call, as its caller sees it
returned(op, arg, upstream) ==
    [op |-> op, arg |-> arg, upstream |-> upstream, threw |-> FALSE,
     message |-> "", requests |-> requestsSent(upstream)]
thrown(op, arg, upstream, message) ==
    [op |-> op, arg |-> arg, upstream |-> upstream, threw |-> TRUE,
     message |-> message, requests |-> requestsSent(upstream)]

\* searchCases(query): the results, or the error its catch throws
SearchCases ==
    /\ Len(kanoonLog) < MaxCalls
    /\ \E query \in Queries, upstream \in UpstreamAnswers :
        kanoonLog' = Append(kanoonLog,
            IF upstream = "200" THEN returned("searchCases", query, upstream)
            ELSE thrown("searchCases", query, upstream,
                        searchErrorMessage(upstream)))
    /\ UNCHANGED <<store, syncVars, singleVars, searchOut, analyzeVars, cosA,
                   cosB, similarity, otherVars>>

\* fetchCaseDetails(docid): the parsed case, or the error its catch throws
FetchCaseDetails ==
    /\ Len(kanoonLog) < MaxCalls
    /\ \E docid \in DocIds, upstream \in UpstreamAnswers :
        kanoonLog' = Append(kanoonLog,
            IF upstream = "200" THEN returned("fetchCaseDetails", docid, upstream)
            ELSE thrown("fetchCaseDetails", docid, upstream,
                        fetchErrorMessage(upstream, docid)))
    /\ UNCHANGED <<store, syncVars, singleVars, searchOut, analyzeVars, cosA,
                   cosB, similarity, otherVars>>

\* the service before its first call
InitKanoon ==
    /\ store = <<>>
    /\ queries = <<"q1">>
    /\ limit = 1
    /\ strictQuery = FALSE
    /\ InitSync
    /\ InitSingle
    /\ searchOut = NoSearch
    /\ NoPure
    /\ NoOther
    /\ NoAnalyze

NextKanoon ==
    \/ SearchCases
    \/ FetchCaseDetails

SpecKanoon == InitKanoon /\ [][NextKanoon]_vars

\* ------------------------------------------------------------ analyzeWithRAG
\* vectorStore.searchSimilarCases(searchQuery, 3)
LocalK == 3
\* kanoonResults.docs.slice(0, 2)
MaxLiveDocs == 2
\* the similarity every live hit is given, as a fraction
LiveSimilarity == [num |-> 9, den |-> 10]
\* a response text is its words in order: [kind |-> "string", tokens |-> ...];
\* a null content is [kind |-> "null", tokens |-> <<>>]
Text(t) == [kind |-> "string", tokens |-> t]
NullText == [kind |-> "null", tokens |-> <<>>]
\* the words the texts are made of
Tokens == {"Section", "405", "302", "Risk Assessment:", "High", "Moderate",
           "(High/Medium/Low)"}
\* what the chat completion may answer to the analysis prompt in an analysis:
\* a text naming a section and a risk, a text naming neither, a null content
ResponseTexts == {Text(<<"Section", "405", "Risk Assessment:", "High">>),
                  Text(<<"Moderate">>),
                  NullText}
\* the collections an analysis runs against: empty, one document never
\* embedded, one embedded document, and four documents of which three are
\* embedded
AnalyzeStores ==
    LET one  == save(<<>>, StoredCase(1))
        four == save(save(save(one, StoredCase(2)), StoredCase(3)), StoredCase(4))
    IN {<<>>,
        one,
        setEmbedding(one, 1, <<1, 0>>),
        setEmbedding(setEmbedding(setEmbedding(four, 1, <<1, 0>>), 2, <<0, 1>>),
                     4, <<3, 4>>)}

\* !finalCaseType
Falsy(h) == h.kind = "null" \/ h.v = ""
\* a test of the hint that takes only null for a missing hint
needsClassificationNullOnly(h) == h = Null

\* !finalCaseType || finalCaseType === 'General'
needsClassification(h) == Falsy(h) \/ h = Str("General")

\* callGrokLLM: throws when XAI_API_KEY is not set, else the request may fail
callGrokLLM == IF apiKey THEN {"ok", "error"} ELSE {"error"}

\* classifyCaseType: the category the model answers, "General" when the call
\* threw
classifyCaseType ==
    {[category |-> c, threw |-> FALSE] : c \in IF "ok" \in callGrokLLM THEN Categories ELSE {}}
    \cup {[category |-> "General", threw |-> TRUE]}

\* a generateSearchQueries that answers no query when the call threw
generateSearchQueriesNoFallback ==
    {[queries |-> q, threw |-> FALSE] :
        q \in IF "ok" \in callGrokLLM
              THEN {<<>>, <<"lq1">>, <<"lq1", "lq2">>} ELSE {}}
    \cup {[queries |-> <<>>, threw |-> TRUE]}

\* generateSearchQueries: up to two queries cut from the answer, the head of
\* the description when the call threw
generateSearchQueries ==
    {[queries |-> q, threw |-> FALSE] :
        q \in IF "ok" \in callGrokLLM
              THEN {<<>>, <<"lq1">>, <<"lq1", "lq2">>} ELSE {}}
    \cup {[queries |-> <<"description">>, threw |-> TRUE]}

\* (?:Section|Sec\.?) of ipcPattern, on a word
SectionWords == {"Section"}
\* (\d+[A-Z]?) of ipcPattern, on a word
SectionNumbers == {"405", "302"}

RECURSIVE ipcMatches(_, _)
\* the while loop over ipcPattern.exec(response): from word i on, an
\* `IPC Section N` for every section word followed by a number
ipcMatches(t, i) ==
    IF i >= Len(t) THEN <<>>
    ELSE IF t[i] \in SectionWords /\ t[i + 1] \in SectionNumbers
         THEN <<"IPC Section " \o t[i + 1]>> \o ipcMatches(t, i + 2)
         ELSE ipcMatches(t, i + 1)

RECURSIVE unique(_)
\* [...new Set(ipcMatches)]: the first occurrence of each element, in order
unique(q) ==
    IF q = <<>> THEN <<>>
    ELSE LET front == unique(SubSeq(q, 1, Len(q) - 1))
         IN IF \E k \in 1..Len(front) : front[k] = q[Len(q)]
            THEN front ELSE Append(front, q[Len(q)])

\* the first run of word characters of a word, "" when it starts with none
firstWord(w) ==
    CASE w = "Risk Assessment:"   -> "Risk"
      [] w = "(High/Medium/Low)"  -> ""
      [] OTHER                    -> w

\* response.match(/Risk\s+Assessment[:\s]+(\w+).../i): the word captured at the
\* first risk phrase that a word follows, "" when nothing matches
riskMatch(t) ==
    LET at == {i \in 1..(Len(t) - 1) :
                  t[i] = "Risk Assessment:" /\ firstWord(t[i + 1]) # ""}
    IN IF at = {} THEN ""
       ELSE firstWord(t[(CHOOSE i \in at : \A j \in at : i <= j) + 1])

\* a parse that asks for two sections before it answers 0.90
parseAnalysisResponseTwo(response) ==
    IF response.kind # "string"
    THEN [suggestedIPCs |-> <<>>, confidence |-> 50, riskLevel |-> "Medium",
          analysis |-> response]
    ELSE LET suggestedIPCs == unique(ipcMatches(response.tokens, 1))
         IN [suggestedIPCs |-> IF Len(suggestedIPCs) > 0
                               THEN suggestedIPCs ELSE <<"Analysis required">>,
             confidence |-> IF Len(suggestedIPCs) > 1 THEN 90 ELSE 60,
             riskLevel |-> IF riskMatch(response.tokens) # ""
                           THEN riskMatch(response.tokens) ELSE "Medium",
             analysis |-> response]

\* parseAnalysisResponse: confidence in hundredths; a null response makes
\* response.match throw, and the catch answers the fallback record
parseAnalysisResponse(response) ==
    IF response.kind # "string"
    THEN [suggestedIPCs |-> <<>>, confidence |-> 50, riskLevel |-> "Medium",
          analysis |-> response]
    ELSE LET suggestedIPCs == unique(ipcMatches(response.tokens, 1))
         IN [suggestedIPCs |-> IF Len(suggestedIPCs) > 0
                               THEN suggestedIPCs ELSE <<"Analysis required">>,
             confidence |-> IF Len(suggestedIPCs) > 0 THEN 90 ELSE 60,
             riskLevel |-> IF riskMatch(response.tokens) # ""
                           THEN riskMatch(response.tokens) ELSE "Medium",
             analysis |-> response]

\* createAugmentedPrompt: the case type and, in the order of retrievedCases, the
\* precedents of the context section
createAugmentedPrompt(type, cases) ==
    [caseType |-> type,
     context  |-> [i \in 1..Len(cases) |->
                      [caseId |-> cases[i].caseId, source |-> cases[i].source]]]

\* localResults.map(r => ({ ...r, source: 'Local DB' }))
localCases(results) ==
    [i \in 1..Len(results) |->
        [caseId |-> results[i].caseId, similarity |-> results[i].similarity,
         source |-> "Local DB"]]

\* kanoonResults.docs.slice(0, 2).map(...)
liveCases(d) ==
    [i \in 1..Min(Len(d), MaxLiveDocs) |->
        [caseId |-> d[i], similarity |-> LiveSimilarity,
         source |-> "Live Indian Kanoon"]]

\* vectorStore.searchSimilarCases(searchQuery, 3) as analyzeWithRAG sees it:
\* createEmbedding throws when XAI_API_KEY is not set
localSearch ==
    {o \in searchSimilarCases(store, LocalK) :
        apiKey \/ o.status = "error" \/ Len(findIndexed(store)) = 0}

\* a merge that ranks the matches of both sources by similarity
mergeCasesRanked(local, live) == sortBySimilarity(local \o live)

\* [...retrievedCases, ...topLiveDocs]
mergeCases(local, live) == local \o live

\* the outer catch of analyzeWithRAG: the error is rethrown
AnalyzeThrows ==
    /\ pcA' = "threw"
    /\ analyzeResult' = [NoAnalyzeResult EXCEPT !.status = "threw"]

\* step 0: the hint is kept, or classifyCaseType is awaited
AnalyzeClassify ==
    /\ pcA = "start"
    /\ IF needsClassification(caseType)
       THEN \E c \in classifyCaseType :
                /\ finalCaseType' = c.category
                /\ called' = called \cup {"classify"}
                /\ failed' = IF c.threw THEN failed \cup {"classify"} ELSE failed
       ELSE /\ finalCaseType' = caseType.v
            /\ UNCHANGED <<called, failed>>
    /\ pcA' = "local"
    /\ UNCHANGED <<store, syncVars, singleVars, searchOut, pureVars, otherVars, caseType, apiKey, lawyers,
                   augmentedPrompt, responseText, recommendedLawyers, httpStatus,
                   retrievedCases, liveQueries, topLiveDocs, analysis,
                   analyzeResult>>

\* the local search without its try: the error reaches the outer catch
AnalyzeLocalSearchUnguarded ==
    /\ pcA = "local"
    /\ called' = called \cup {"local"}
    /\ \E o \in localSearch :
        IF o.status = "ok"
        THEN /\ retrievedCases' = localCases(o.results)
             /\ pcA' = "queries"
             /\ UNCHANGED <<failed, analyzeResult>>
        ELSE /\ failed' = failed \cup {"local"}
             /\ AnalyzeThrows
             /\ UNCHANGED retrievedCases
    /\ UNCHANGED <<store, syncVars, singleVars, searchOut, pureVars, otherVars, caseType, apiKey, lawyers,
                   augmentedPrompt, responseText, recommendedLawyers, httpStatus,
                   finalCaseType, liveQueries, topLiveDocs, analysis>>

\* a local search that keeps what it had scanned when the embedding call threw
AnalyzeLocalSearchKeepsScan ==
    /\ pcA = "local"
    /\ called' = called \cup {"local"}
    /\ \E o \in localSearch :
        IF o.status = "ok"
        THEN /\ retrievedCases' = localCases(o.results)
             /\ UNCHANGED failed
        ELSE /\ retrievedCases' =
                    localCases(topResults(findIndexed(store), NullEmbedding, LocalK))
             /\ failed' = failed \cup {"local"}
    /\ pcA' = "queries"
    /\ UNCHANGED <<store, syncVars, singleVars, searchOut, pureVars, otherVars, caseType, apiKey, lawyers,
                   augmentedPrompt, responseText, recommendedLawyers, httpStatus,
                   finalCaseType, liveQueries, topLiveDocs, analysis,
                   analyzeResult>>

\* step 1: the local search, its failure is logged and swallowed
AnalyzeLocalSearch ==
    /\ pcA = "local"
    /\ called' = called \cup {"local"}
    /\ \E o \in localSearch :
        IF o.status = "ok"
        THEN /\ retrievedCases' = localCases(o.results)
             /\ UNCHANGED failed
        ELSE /\ retrievedCases' = <<>>
             /\ failed' = failed \cup {"local"}
    /\ pcA' = "queries"
    /\ UNCHANGED <<store, syncVars, singleVars, searchOut, pureVars, otherVars, caseType, apiKey, lawyers,
                   augmentedPrompt, responseText, recommendedLawyers, httpStatus,
                   finalCaseType, liveQueries, topLiveDocs, analysis,
                   analyzeResult>>

\* step 2: generateSearchQueries; no search when no query came back
AnalyzeQueries ==
    /\ pcA = "queries"
    /\ called' = called \cup {"queries"}
    /\ \E g \in generateSearchQueries :
        /\ liveQueries' = g.queries
        /\ failed' = IF g.threw THEN failed \cup {"queries"} ELSE failed
        /\ pcA' = IF Len(g.queries) > 0 THEN "live" ELSE "llm"
    /\ UNCHANGED <<store, syncVars, singleVars, searchOut, pureVars, otherVars, caseType, apiKey, lawyers,
                   augmentedPrompt, responseText, recommendedLawyers, httpStatus,
                   finalCaseType, retrievedCases, topLiveDocs, analysis,
                   analyzeResult>>

\* step 2: kanoonService.searchCases(liveQueries[0]); its failure is swallowed
AnalyzeLiveSearch ==
    /\ pcA = "live"
    /\ called' = called \cup {"live"}
    /\ \/ \E e \in SearchErrors :
            /\ failed' = failed \cup {"live"}
            /\ pcA' = "llm"
            /\ UNCHANGED topLiveDocs
       \/ \E d \in HitLists :
            /\ UNCHANGED failed
            /\ IF Len(d) > 0
               THEN topLiveDocs' = liveCases(d) /\ pcA' = "enrich"
               ELSE UNCHANGED topLiveDocs /\ pcA' = "llm"
    /\ UNCHANGED <<store, syncVars, singleVars, searchOut, pureVars, otherVars, caseType, apiKey, lawyers,
                   augmentedPrompt, responseText, recommendedLawyers, httpStatus,
                   finalCaseType, retrievedCases, liveQueries, analysis,
                   analyzeResult>>

\* step 2: the details of the first live hit, a failure is swallowed; the live
\* hits go behind the local ones
AnalyzeEnrich ==
    /\ pcA = "enrich"
    /\ called' = called \cup {"enrich"}
    /\ \/ \E e \in FetchErrors : failed' = failed \cup {"enrich"}
       \/ UNCHANGED failed
    /\ retrievedCases' = mergeCases(retrievedCases, topLiveDocs)
    /\ pcA' = "llm"
    /\ UNCHANGED <<store, syncVars, singleVars, searchOut, pureVars, otherVars, caseType, apiKey, lawyers,
                   augmentedPrompt, responseText, recommendedLawyers, httpStatus,
                   finalCaseType, liveQueries, topLiveDocs, analysis,
                   analyzeResult>>

\* steps 3 to 5: the prompt, the analysis call, outside every inner try, and
\* the parse
AnalyzeLLM ==
    /\ pcA = "llm"
    /\ called' = called \cup {"analysis"}
    /\ augmentedPrompt' = createAugmentedPrompt(finalCaseType, retrievedCases)
    /\ \E o \in callGrokLLM :
        IF o = "error"
        THEN /\ failed' = failed \cup {"analysis"}
             /\ AnalyzeThrows
             /\ UNCHANGED <<analysis, responseText>>
        ELSE \E text \in ResponseTexts :
             /\ responseText' = text
             /\ analysis' = parseAnalysisResponse(text)
             /\ pcA' = "lawyers"
             /\ UNCHANGED <<failed, analyzeResult>>
    /\ UNCHANGED <<store, syncVars, singleVars, searchOut, pureVars, otherVars, caseType,
                   apiKey, lawyers, recommendedLawyers, httpStatus,
                   finalCaseType, retrievedCases, liveQueries, topLiveDocs>>

\* step 6: findBestLawyers, which answers [] when it fails; the result is
\* returned
AnalyzeLawyers ==
    /\ pcA = "lawyers"
    /\ called' = called \cup {"lawyers"}
    /\ \E o \in lawyerLookup(lawyers, finalCaseType) :
        /\ failed' = IF o.threw THEN failed \cup {"lawyers"} ELSE failed
        /\ recommendedLawyers' = o.lawyers
        /\ analyzeResult' = [status |-> "returned", success |-> TRUE,
                             caseType |-> finalCaseType,
                             analysis |-> analysis,
                             retrievedCases |-> retrievedCases,
                             recommendedLawyers |-> o.lawyers]
    /\ pcA' = "returned"
    /\ UNCHANGED <<store, syncVars, singleVars, searchOut, pureVars, otherVars, caseType,
                   apiKey, lawyers, augmentedPrompt, responseText, httpStatus,
                   finalCaseType, retrievedCases, liveQueries, topLiveDocs,
                   analysis>>

\* ragAnalysis.retrievedCases.map(rc => ({caseId: rc.caseId, similarity: ...}))
similarCasesOf(cases) ==
    [i \in 1..Len(cases) |->
        [caseId |-> cases[i].caseId, similarity |-> cases[i].similarity]]

\* the Case document analyzeCaseWithRAG saves for the result rag: the case
\* type when it was missing or 'General', aiAnalysis, and similarCases when
\* the result retrieved a match
storeAnalysis(doc, rag) ==
    [caseType |-> IF rag.caseType # "" /\ doc.caseType \in {"", "General"}
                  THEN rag.caseType ELSE doc.caseType,
     aiAnalysis |-> [suggestedIPCs |-> rag.analysis.suggestedIPCs,
                     confidence |-> rag.analysis.confidence,
                     riskLevel |-> rag.analysis.riskLevel,
                     analyzedAt |-> doc.aiAnalysis.analyzedAt + 1],
     similarCases |-> IF Len(rag.retrievedCases) > 0
                      THEN similarCasesOf(rag.retrievedCases)
                      ELSE doc.similarCases]

\* analyzeCaseWithRAG of the controller, behind its await of analyzeWithRAG:
\* a thrown analysis is answered 500 by the catch; keyPoints splits
\* ragAnalysis.analysis.analysis, which throws when that is not a string; the
\* awaited caseData.save() stores the document or throws; the answer is 200
\* when nothing threw
Answer(rag) ==
    \/ /\ rag.status = "threw"
       /\ httpStatus' = 500
       /\ UNCHANGED <<failed, caseDoc>>
    \/ /\ rag.status = "returned"
       /\ rag.analysis.analysis.kind # "string"
       /\ httpStatus' = 500
       /\ failed' = failed \cup {"keyPoints"}
       /\ UNCHANGED caseDoc
    \/ /\ rag.status = "returned"
       /\ rag.analysis.analysis.kind = "string"
       /\ \/ /\ httpStatus' = 200
             /\ caseDoc' = storeAnalysis(caseDoc, rag)
             /\ UNCHANGED failed
          \/ /\ httpStatus' = 500
             /\ failed' = failed \cup {"save"}
             /\ UNCHANGED caseDoc

\* the request of the controller whose analyzeWithRAG call has ended
AnalyzeCaseWithRAG ==
    /\ pcA \in {"returned", "threw"}
    /\ httpStatus = 0
    /\ Answer(analyzeResult)
    /\ UNCHANGED <<store, syncVars, singleVars, searchOut, pureVars, reindexVars, extractVars,
                   singletonVars, caseType,
                   apiKey, pcA, lawyers, augmentedPrompt, responseText,
                   recommendedLawyers, finalCaseType, retrievedCases,
                   liveQueries, topLiveDocs, analysis, analyzeResult, called>>

\* the Lawyer collections an analysis runs against
AnalyzeLawyerCollections ==
    {<<>>,
     <<[verificationStatus |-> "verified", specializations |-> {"Civil"},
        rating |-> 5, caseWon |-> 1]>>}

\* an analysis is requested against a collection at rest
InitAnalyze ==
    /\ store \in AnalyzeStores
    /\ queries = <<"q1">>
    /\ limit = 1
    /\ strictQuery = FALSE
    /\ InitSync
    /\ InitSingle
    /\ searchOut = NoSearch
    /\ NoPure
    /\ caseType \in Hints
    /\ apiKey \in BOOLEAN
    /\ pcA = "start"
    /\ finalCaseType = ""
    /\ retrievedCases = <<>>
    /\ liveQueries = <<>>
    /\ topLiveDocs = <<>>
    /\ analysis = NoAnalysis
    /\ analyzeResult = NoAnalyzeResult
    /\ called = {}
    /\ failed = {}
    /\ augmentedPrompt = <<>>
    /\ responseText = NoText
    /\ lawyers \in AnalyzeLawyerCollections
    /\ recommendedLawyers = <<>>
    /\ httpStatus = 0
    \* caseData.caseType === 'General' ? null : caseData.caseType
    /\ caseDoc = [NoCaseDoc EXCEPT
                    !.caseType = IF caseType = Null THEN "General" ELSE caseType.v]
    /\ InitReindex
    /\ NoExtract
    /\ InitSingleton

NextAnalyze ==
    \/ AnalyzeClassify
    \/ AnalyzeLocalSearch
    \/ AnalyzeQueries
    \/ AnalyzeLiveSearch
    \/ AnalyzeEnrich
    \/ AnalyzeLLM
    \/ AnalyzeLawyers
    \/ AnalyzeCaseWithRAG

SpecAnalyze == InitAnalyze /\ [][NextAnalyze]_vars

\* ------------------------------------------- analyzeCaseWithRAG, repeated
\* analyses stored on the one case
MaxAnalyses == 3
\* the lists of matches an analysis may retrieve
RetrievedLists ==
    {mergeCases(localCases(r), liveCases(d)) :
        r \in {<<>>, <<[caseId |-> 1, similarity |-> Zero]>>},
        d \in {<<>>, <<1>>, <<2, 1>>}}
\* what the analyzeWithRAG call of a request ends in: the error thrown, or a
\* result
RagOutcomes ==
    {[NoAnalyzeResult EXCEPT !.status = "threw"]}
    \cup {[status |-> "returned", success |-> TRUE, caseType |-> c,
           analysis |-> parseAnalysisResponse(t), retrievedCases |-> cases,
           recommendedLawyers |-> <<>>] :
          c \in {"Criminal"}, t \in ResponseTexts, cases \in RetrievedLists}

\* one analyzeCaseWithRAG request for the case, from its analyzeWithRAG call
\* to its answer
AnalyzeCaseRequest ==
    /\ pcA = "idle"
    /\ caseDoc.aiAnalysis.analyzedAt < MaxAnalyses
    /\ \E rag \in RagOutcomes :
        /\ analyzeResult' = rag
        /\ Answer(rag)
    /\ UNCHANGED <<store, syncVars, singleVars, searchOut, pureVars, reindexVars, extractVars,
                   singletonVars, caseType,
                   apiKey, pcA, lawyers, augmentedPrompt, responseText,
                   recommendedLawyers, finalCaseType, retrievedCases,
                   liveQueries, topLiveDocs, analysis, called>>

\* a case that was never analyzed
InitReanalyze ==
    /\ store = <<>>
    /\ queries = <<"q1">>
    /\ limit = 1
    /\ strictQuery = FALSE
    /\ InitSync
    /\ InitSingle
    /\ searchOut = NoSearch
    /\ NoPure
    /\ NoOther
    /\ NoAnalyze

NextReanalyze == AnalyzeCaseRequest

SpecReanalyze == InitReanalyze /\ [][NextReanalyze]_vars

\* ------------------------------------------------------ parseAnalysisResponse
\* longest response text, in words
MaxTokens == 5
\* the response texts parseAnalysisResponse is applied to
ParseTexts ==
    {NullText} \cup {Text(t) : t \in UNION {[1..n -> Tokens] : n \in 0..MaxTokens}}

\* parseAnalysisResponse(responseText)
ParseAnalysisResponse ==
    /\ pcA = "idle"
    /\ analysis = NoAnalysis
    /\ analysis' = parseAnalysisResponse(responseText)
    /\ UNCHANGED <<store, syncVars, singleVars, searchOut, pureVars, otherVars, caseType,
                   apiKey, pcA, finalCaseType, retrievedCases, liveQueries,
                   topLiveDocs, analyzeResult, called, failed, augmentedPrompt,
                   responseText, lawyers, recommendedLawyers, httpStatus>>

\* a response text is about to be parsed
InitParse ==
    /\ store = <<>>
    /\ queries = <<"q1">>
    /\ limit = 1
    /\ strictQuery = FALSE
    /\ InitSync
    /\ InitSingle
    /\ searchOut = NoSearch
    /\ NoPure
    /\ NoOther
    /\ IdleAnalyze
    /\ finalCaseType = ""
    /\ lawyers = <<>>
    /\ responseText \in ParseTexts

NextParse == ParseAnalysisResponse

SpecParse == InitParse /\ [][NextParse]_vars


\* syncKanoonCases: the statistics of the JSON answer
syncStatistics(r) ==
    [totalProcessed |-> r.indexed + r.failed,
     indexed        |-> r.indexed,
     failed         |-> r.failed]

\* ------------------------------------------------ properties: precedent store
\* C1: no two stored precedent records share the same non-null sourceId (the
\* sourceId of the payload each record was stored from), in every state that
\* sync runs and single-case fetch-and-save requests reach.
C1_UniqueSourceId ==
    \A i, j \in 1..Len(store) :
        (i # j /\ store[i].origin # Undefined)
            => store[i].origin # store[j].origin

\* the existence check of _saveCaseToDatabase is the step that leaves "check"
UpsertChecks == pc = "check" /\ pc' # "check"

\* the stored records that came from the sourceId or the URL of caseData
Duplicates ==
    {i \in 1..Len(store) :
        \/ store[i].origin = caseData.sourceId
        \/ KanoonUrl(store[i].origin) = caseData.kanoonUrl}

\* C2: when _saveCaseToDatabase is called with a record whose sourceId or URL
\* is that of a stored record, nothing is inserted, no stored record changes,
\* and the record returned is the first stored match; whatever the payload of
\* the call, the first-inserted payload stays the only one.
C2_UpsertKeepsExisting ==
    [][(UpsertChecks /\ Duplicates # {}) =>
          /\ store' = store
          /\ pc' # "save"
          /\ Len(indexedCases') = Len(indexedCases) + 1
          /\ indexedCases'[Len(indexedCases')] \in Duplicates
          /\ \A i \in Duplicates : indexedCases'[Len(indexedCases')] <= i
          /\ inserted' = inserted]_vars

\* ------------------------------------------------- properties: similarity search
\* the matches of the last search are in non-increasing order of similarity
SearchSorted ==
    \A i \in 1..(Len(searchOut.results) - 1) :
        compareSimilarity(searchOut.results[i], searchOut.results[i + 1]) <= 0

\* C3: searchSimilarCases returns matches ordered by non-increasing similarity,
\* at most min(k, number of precedents with a non-null embedding) of them.
C3_TopKSortedAndBounded ==
    searchOut.status = "ok" =>
        /\ SearchSorted
        /\ Len(searchOut.results) <= Min(searchOut.k, Cardinality(searchOut.scanned))

\* C4: every match returned refers to a precedent whose embedding was non-null
\* when the store was scanned; never-embedded and cleared precedents are not
\* returned.
C4_OnlyEmbeddedReturned ==
    searchOut.status = "ok" =>
        \A i \in 1..Len(searchOut.results) :
            searchOut.results[i].caseId \in searchOut.scanned

\* C5: when no stored precedent has a non-null embedding, searchSimilarCases
\* returns the empty sequence and does not fail.
C5_EmptyWhenNothingEmbedded ==
    (searchOut.status # "none" /\ searchOut.scanned = {}) =>
        /\ searchOut.status = "ok"
        /\ searchOut.results = <<>>

\* ------------------------------------------------------- properties: sync batch
Max(a, b) == IF a > b THEN a ELSE b

RECURSIVE expectedAttempts(_)
\* the detail fetches of a batch no failure cuts short: for each search made,
\* in order, the hits 1..min(hits, limit) of its answer
expectedAttempts(log) ==
    IF log = <<>> THEN <<>>
    ELSE LET e == log[Len(log)]
         IN expectedAttempts(SubSeq(log, 1, Len(log) - 1))
              \o [h \in 1..Min(Max(e.hits, 0), limit) |-> <<e.pos, h>>]

SearchThrown(e) == e.hits = -1
QueryLevel(f) == f.docid = Undefined
ThrownSearches == SelectSeq(searchedLog, SearchThrown)
QueryFailures == SelectSeq(failedCases, QueryLevel)

\* C6: whichever searches throw, every query of the list is searched, in list
\* order, the hits of every other query are processed, and the failure report
\* holds exactly one query-level entry for each query whose search threw.
C6_BatchResilience ==
    pc = "done" =>
        /\ Len(searchedLog) = Len(queries)
        /\ \A p \in 1..Len(searchedLog) : searchedLog[p].pos = p
        /\ attemptLog = expectedAttempts(searchedLog)
        /\ Len(QueryFailures) = Len(ThrownSearches)
        /\ \A n \in 1..Len(QueryFailures) :
              QueryFailures[n].query = queries[ThrownSearches[n].pos]
        /\ result.errors = failedCases

\* the search of the first of two queries threw, the second was searched and
\* its hits fetched
C6_Witness ==
    /\ pc = "done"
    /\ Len(queries) = 2
    /\ searchedLog[1].hits = -1
    /\ searchedLog[2].hits = 2
    /\ attemptLog = <<<<2, 1>>, <<2, 2>>>>
    /\ Len(failedCases) = 1

\* a step that records the failure of one hit
HitFailureStep ==
    /\ Len(failedCases') = Len(failedCases) + 1
    /\ failedCases'[Len(failedCases')].docid # Undefined

HitFailureMessages ==
    {fetchErrorMessage(e, tid) : e \in FetchErrors, tid \in DocIds}
        \cup {DuplicateKeyMessage}

\* C7: a failing detail fetch or store write of one hit adds one failure record
\* (query, identifier of the hit, error message) and the batch goes on with
\* the next hit of the query up to the limit, else with the next query; no
\* detail fetch of the batch is skipped.
C7_ItemFailureContinues ==
    /\ [][HitFailureStep =>
            /\ \E msg \in HitFailureMessages :
                  failedCases' = Append(failedCases,
                      [query |-> queries[qi], docid |-> docs[hi], error |-> msg])
            /\ IF hi < Min(Len(docs), limit)
               THEN pc' = "delay" /\ hi' = hi + 1 /\ qi' = qi /\ docs' = docs
               ELSE pc' = "search" /\ qi' = qi + 1]_vars
    /\ [](pc = "done" =>
            /\ Len(searchedLog) = Len(queries)
            /\ attemptLog = expectedAttempts(searchedLog))

\* the first hit of a query failed with not-found and the second hit of the
\* same query has been fetched
C7_Witness ==
    /\ pc = "check"
    /\ attemptLog = <<<<1, 1>>, <<1, 2>>>>
    /\ failedCases = <<[query |-> queries[1], docid |-> docs[1],
                        error |-> fetchErrorMessage("404", docs[1])]>>

\* C8: the indexed count of the report (result.indexed, stats.casesIndexed,
\* statistics.indexed of the answer) is the number of records the batch
\* inserted.
C8_IndexedCountsInserts ==
    pc = "done" =>
        /\ result.indexed = inserted
        /\ result.stats.casesIndexed = inserted
        /\ syncStatistics(result).indexed = inserted

\* the analysis call has ended: a result was returned or the error was thrown
AnalyzeEnded == pcA \in {"returned", "threw"}
\* the best-effort steps of analyzeWithRAG
BestEffortSteps == {"classify", "local", "queries", "live", "enrich", "lawyers"}

\* C9: analyzeWithRAG throws exactly when the analysis call of the LLM throws:
\* whatever best-effort steps failed, a successful analysis call is followed
\* by a returned result, and a failed analysis call ends in the thrown error
\* with no result returned.
C9_FailsExactlyWhenAnalysisFails ==
    /\ pcA = "threw" <=> "analysis" \in failed
    /\ pcA = "threw" => analyzeResult.status = "threw" /\ ~analyzeResult.success
    /\ pcA = "returned" =>
           /\ analyzeResult.status = "returned"
           /\ analyzeResult.success
           /\ "analysis" \in called \ failed
    /\ ("analysis" \in called \ failed) => pcA \in {"lawyers", "returned"}

\* classification, local retrieval, query generation, detail enrichment and the
\* lawyer lookup all failed, and the result was returned all the same
C9_Witness ==
    /\ pcA = "returned"
    /\ failed = {"classify", "local", "queries", "enrich", "lawyers"}
    /\ analyzeResult.success

\* C10 as stated: the classifier is called only when the hint is null or
\* "General", any other hint is the case type unchanged, and after a failed
\* classification the analysis goes on with the case type "General".
C10_ClassifyOnlyNullOrGeneral ==
    /\ "classify" \in called => caseType \in {Null, Str("General")}
    /\ (pcA # "start" /\ caseType \notin {Null, Str("General")}) =>
           finalCaseType = caseType.v
    /\ "classify" \in failed => finalCaseType = "General"

\* C10, amended: the classifier is called exactly when the hint is null, the
\* empty string or "General"; any other hint is the case type unchanged; and
\* after a failed classification the case type is "General" and the analysis
\* goes on through the local search, the query generation and the analysis
\* call, and through the lawyer lookup to a result of case type "General"
\* when the analysis call succeeds.
C10_ClassifyWhenNoHint ==
    /\ pcA # "start" =>
           ("classify" \in called <=> caseType \in {Null, Str(""), Str("General")})
    /\ (pcA # "start" /\ caseType \notin {Null, Str(""), Str("General")}) =>
           finalCaseType = caseType.v
    /\ "classify" \in failed =>
           /\ finalCaseType = "General"
           /\ pcA \in {"local", "queries", "live", "enrich", "llm", "lawyers",
                       "returned", "threw"}
           /\ AnalyzeEnded => {"local", "queries", "analysis"} \subseteq called
           /\ pcA = "returned" =>
                  "lawyers" \in called /\ analyzeResult.caseType = "General"

\* the classifier was called for an empty hint, failed, and the analysis returned
C10_Witness ==
    /\ caseType = Str("")
    /\ "classify" \in failed
    /\ pcA = "returned"
    /\ analyzeResult.caseType = "General"

\* the matches of a list that came from the local vector search
LocalMatches(cases) == SelectSeq(cases, LAMBDA c : c.source = "Local DB")
\* the matches of a list that came from the live search
LiveMatches(cases) == SelectSeq(cases, LAMBDA c : c.source = "Live Indian Kanoon")

\* C11: when the local retrieval of analyzeWithRAG throws, the call goes on to
\* the query generation, the prompt and the analysis call with no local match,
\* and a returned result holds no local match.
C11_LocalFailureProceeds ==
    "local" \in failed =>
        /\ pcA \in {"queries", "live", "enrich", "llm", "lawyers", "returned", "threw"}
        /\ LocalMatches(retrievedCases) = <<>>
        /\ AnalyzeEnded => {"queries", "analysis"} \subseteq called
        /\ pcA = "threw" => "analysis" \in failed
        /\ pcA = "returned" => LocalMatches(analyzeResult.retrievedCases) = <<>>

\* the local search threw, the live search answered, and the result returned
\* holds live matches only
C11_Witness ==
    /\ "local" \in failed
    /\ pcA = "returned"
    /\ Len(analyzeResult.retrievedCases) = MaxLiveDocs
    /\ LocalMatches(analyzeResult.retrievedCases) = <<>>

\* the steps of analyzeWithRAG behind the live search
AfterLiveSearch == {"enrich", "llm", "lawyers", "returned", "threw"}

\* C12 as stated: when the query generation or the external search throws, the
\* live step adds no match to the merged list, and analyzeWithRAG does not
\* fail.
C12_LiveFailureAddsNothing ==
    ("queries" \in failed \/ "live" \in failed) =>
        /\ LiveMatches(retrievedCases) = <<>>
        /\ pcA = "returned" => LiveMatches(analyzeResult.retrievedCases) = <<>>
        /\ pcA = "threw" => "analysis" \in failed

\* C12, amended: when the external search throws, the live step adds no match
\* (the merged list holds the local matches only); when the query generation
\* throws, the search is made with the head of the description as the only
\* query, and its matches are added as those of any search; analyzeWithRAG
\* fails in neither case.
C12_SearchFailureAddsNothing ==
    /\ "live" \in failed =>
           /\ LiveMatches(retrievedCases) = <<>>
           /\ pcA = "returned" =>
                  analyzeResult.retrievedCases = LocalMatches(analyzeResult.retrievedCases)
    /\ "queries" \in failed =>
           /\ liveQueries = <<"description">>
           /\ pcA \in AfterLiveSearch => "live" \in called
    /\ ("queries" \in failed \/ "live" \in failed) =>
           (pcA = "threw" => "analysis" \in failed)

\* the query generation threw, the search with the fallback query answered,
\* and the result returned holds its matches
C12_Witness ==
    /\ "queries" \in failed
    /\ "live" \notin failed
    /\ pcA = "returned"
    /\ Len(LiveMatches(analyzeResult.retrievedCases)) = MaxLiveDocs

\* no live match stands before a local match
LocalFirst(cases) ==
    \A i, j \in 1..Len(cases) :
        (i < j) => ~(cases[i].source = "Live Indian Kanoon" /\ cases[j].source = "Local DB")

\* the local matches of the list are, in order, the answer of a local search
KeepsTopKOrder(cases) ==
    \/ LocalMatches(cases) = <<>>
    \/ \E o \in localSearch :
          o.status = "ok" /\ LocalMatches(cases) = localCases(o.results)

Parsed == analysis # NoAnalysis
\* the positions of the text where a section word is followed by a number
SectionMentions ==
    {i \in 1..(Len(responseText.tokens) - 1) :
        /\ responseText.tokens[i] = "Section"
        /\ responseText.tokens[i + 1] \in {"405", "302"}}
\* parsing threw: the response is no string
ParseThrew == responseText.kind # "string"

\* C14: the confidence of a parsed response is 0.90 exactly when at least one
\* section was extracted, 0.60 when the parse completed with none, and 0.5
\* exactly when the parse threw.
C14_ConfidenceLevels ==
    Parsed =>
        /\ analysis.confidence \in {90, 60, 50}
        /\ analysis.confidence = 90 <=> (~ParseThrew /\ SectionMentions # {})
        /\ analysis.confidence = 60 <=> (~ParseThrew /\ SectionMentions = {})
        /\ analysis.confidence = 50 <=> ParseThrew

\* a text whose only number stands before the section word: no section, 0.60
C14_Witness ==
    /\ Parsed
    /\ responseText = Text(<<"405", "Section">>)
    /\ analysis.confidence = 60

\* C15: suggestedIPCs of a parsed response is never empty and holds no
\* duplicate: the extracted sections in first-occurrence order when there is
\* one, and ["Analysis required"] otherwise, the fallback of a failed parse
\* included.
C15_SectionsNeverEmpty ==
    Parsed =>
        LET mentioned == {"IPC Section " \o responseText.tokens[i + 1] : i \in SectionMentions}
            ipcs == analysis.suggestedIPCs
        IN /\ Len(ipcs) > 0
           /\ \A i, j \in 1..Len(ipcs) : i # j => ipcs[i] # ipcs[j]
           /\ (SectionMentions = {} \/ ParseThrew) => ipcs = <<"Analysis required">>
           /\ (SectionMentions # {} /\ ~ParseThrew) =>
                  /\ {ipcs[i] : i \in 1..Len(ipcs)} = mentioned
                  /\ ipcs[1] = "IPC Section " \o
                        responseText.tokens[(CHOOSE i \in SectionMentions :
                            \A j \in SectionMentions : i <= j) + 1]

\* C16: riskLevel of a parsed response is Low, Medium or High; it is Medium
\* when the text has no risk phrase or the word behind "Risk Assessment" is
\* none of the three.
C16_RiskLevelEnum ==
    Parsed =>
        /\ analysis.riskLevel \in {"Low", "Medium", "High"}
        /\ (~\E i \in 1..(Len(responseText.tokens) - 1) :
               /\ responseText.tokens[i] = "Risk Assessment:"
               /\ responseText.tokens[i + 1] \in {"Low", "Medium", "High"})
             => analysis.riskLevel = "Medium"

\* -------------------------------------------------- properties: lawyer lookup
\* the lookup has been made
LookedUp == "lawyers" \in called /\ pcA = "idle"
\* the _ids of the verified lawyers, and of the verified specialists
VerifiedIds == {i \in 1..Len(lawyers) : lawyers[i].verificationStatus = "verified"}
SpecialistIds == {i \in VerifiedIds : finalCaseType \in lawyers[i].specializations}
\* the lawyers the lookup chooses among
Pool == IF SpecialistIds = {} THEN VerifiedIds ELSE SpecialistIds
\* lawyer i is ranked strictly above lawyer j
Outranks(i, j) ==
    \/ lawyers[i].rating > lawyers[j].rating
    \/ lawyers[i].rating = lawyers[j].rating /\ lawyers[i].caseWon > lawyers[j].caseWon

\* the list is the top of the pool by rating then cases won
TopOfPool ==
    LET ids == {recommendedLawyers[k].id : k \in 1..Len(recommendedLawyers)}
    IN /\ Len(recommendedLawyers) = Min(LawyerLimit, Cardinality(Pool))
       /\ Cardinality(ids) = Len(recommendedLawyers)
       /\ ids \subseteq Pool
       /\ \A k \in 1..(Len(recommendedLawyers) - 1) :
              ~Outranks(recommendedLawyers[k + 1].id, recommendedLawyers[k].id)
       /\ \A i \in ids : \A j \in Pool \ ids : ~Outranks(j, i)

ParseDegraded ==
    /\ "analysis" \in called \ failed
    /\ analysis.confidence \in {50, 60}

\* C18: when the analysis call succeeds, a response whose parse falls back or
\* throws is never reported as an error: analyzeWithRAG does not throw on it,
\* and analyzeCaseWithRAG, which stores the result, is not answered 500
\* because of it.
C18_DegradedParseNeverFails ==
    ParseDegraded =>
        /\ pcA # "threw"
        /\ "keyPoints" \notin failed
        /\ (httpStatus = 500 => "save" \in failed)

ThrownCalls == {i \in 1..Len(kanoonLog) : kanoonLog[i].threw}
\* the not-found messages of fetchCaseDetails
NotFoundMessages == {DocumentNotFound(tid) : tid \in DocIds}

\* C19: searchCases and fetchCaseDetails throw the authentication error, whose
\* message tells to check the API token, when the upstream answers 403;
\* fetchCaseDetails throws the not-found error of its document when the
\* upstream answers 404; and no other failure (missing token, timeout, 5xx,
\* invalid answer, a 404 of the search) is thrown with either message.
C19_AuthAndNotFoundDistinct ==
    \A i \in 1..Len(kanoonLog) :
        LET c == kanoonLog[i] IN
        /\ c.upstream = "403" => c.threw /\ c.message = AuthenticationFailed
        /\ (c.op = "fetchCaseDetails" /\ c.upstream = "404") =>
               c.threw /\ c.message = DocumentNotFound(c.arg)
        /\ (c.threw /\ c.upstream # "403") => c.message # AuthenticationFailed
        /\ (c.threw /\ ~(c.op = "fetchCaseDetails" /\ c.upstream = "404")) =>
               c.message \notin NotFoundMessages
        /\ c.threw <=> c.upstream # "200"

\* a search answered 403, a fetch answered 404 and a fetch that timed out
C19_Witness ==
    /\ Len(kanoonLog) = 3
    /\ kanoonLog[1].op = "searchCases" /\ kanoonLog[1].upstream = "403"
    /\ kanoonLog[2].op = "fetchCaseDetails" /\ kanoonLog[2].upstream = "404"
    /\ kanoonLog[3].op = "fetchCaseDetails" /\ kanoonLog[3].upstream = "timeout"
    /\ ThrownCalls = {1, 2, 3}


\* a vector that carries no signal: missing, empty, or all of zeros
NoSignal(vec) ==
    \/ vec.kind # "array"
    \/ \A i \in 1..Len(vec.v) : vec.v[i] = 0
\* two vectors of different lengths
LengthsDiffer(a, b) ==
    a.kind = "array" /\ b.kind = "array" /\ Len(a.v) # Len(b.v)

\* C20: cosineSimilarity returns exactly 0, and no error, when either vector
\* is missing, empty or all-zero, or when the two lengths differ.
C20_ZeroWhenNoSignal ==
    ("cosineSimilarity" \in called
        /\ (NoSignal(cosA) \/ NoSignal(cosB) \/ LengthsDiffer(cosA, cosB))) =>
        similarity = Zero

\* an all-zero vector was compared with a vector of the same length
C20_Witness ==
    /\ "cosineSimilarity" \in called
    /\ cosA = Vec(<<0, 0>>)
    /\ cosB = Vec(<<3, 4>>)
    /\ similarity = Zero


\* the fetchCaseDetails calls of the log
FetchCalls == {i \in 1..Len(kanoonLog) : kanoonLog[i].op = "fetchCaseDetails"}
\* the upstream failures that a later attempt may not meet again
Transient == {"500", "timeout"}

\* C21: a detail fetch ends parsed, or with the authentication error, the
\* not-found error, or the error of an unavailable upstream; the first two
\* failures end the fetch after its one request, and a transient failure is
\* thrown only after maxRetries requests were sent.
C21_TransientRetried ==
    \A i \in FetchCalls :
        LET c == kanoonLog[i] IN
        /\ c.upstream = "200" => ~c.threw
        /\ c.upstream = "403" => c.message = AuthenticationFailed /\ c.requests = 1
        /\ c.upstream = "404" => c.message = DocumentNotFound(c.arg) /\ c.requests = 1
        /\ c.upstream \in Transient => c.threw /\ c.requests = maxRetries


\* C22: after an analysis is stored on the case, aiAnalysis and similarCases
\* of the case are those of that analysis alone: similarCases holds the
\* matches this analysis retrieved and no other, none when it retrieved none.
C22_LatestAnalysisOnly ==
    httpStatus = 200 =>
        /\ caseDoc.aiAnalysis.suggestedIPCs = analyzeResult.analysis.suggestedIPCs
        /\ caseDoc.aiAnalysis.confidence = analyzeResult.analysis.confidence
        /\ caseDoc.aiAnalysis.riskLevel = analyzeResult.analysis.riskLevel
        /\ caseDoc.similarCases = similarCasesOf(analyzeResult.retrievedCases)



\* a step that issues a detail fetch of the batch
FetchIssued == attemptLog' # attemptLog

\* C26: every detail fetch of fetchAndIndexCases is issued after a rate-limit
\* wait of its own has elapsed, whatever the outcome of the fetch before it and
\* whether that one belonged to the same query: the batch never issues two
\* detail fetches without a wait between them.
C26_WaitBeforeEveryFetch ==
    /\ [](delayed = Len(attemptLog) + (IF pc = "fetch" THEN 1 ELSE 0))
    /\ [][FetchIssued => pc = "fetch" /\ pc' # "fetch"]_vars
    /\ [][(pc # "fetch" /\ pc' = "fetch") =>
            pc = "delay" /\ delayed' = delayed + 1 /\ ~FetchIssued]_vars

\* three fetches of one batch, the first of which failed, over two queries:
\* three waits have elapsed
C26_Witness ==
    /\ pc = "done"
    /\ attemptLog = <<<<1, 1>>, <<1, 2>>, <<2, 1>>>>
    /\ Len(failedCases) >= 1
    /\ failedCases[1].docid # Undefined
    /\ inserted >= 1
    /\ delayed = 3


\* the year the priority order of the fields gives: the year field, else the
\* first run of four digits of the date, else that of the case number, else
\* the current year
yearByPriority(data) ==
    IF Truthy(data.year) THEN data.year.n
    ELSE IF data.date.kind = "string" /\ yearMatch(data.date.words) # 0
         THEN yearMatch(data.date.words)
         ELSE IF data.caseid.kind = "string" /\ yearMatch(data.caseid.words) # 0
              THEN yearMatch(data.caseid.words)
              ELSE CurrentYear

\* C27: _extractYear returns the year field, else the first run of four digits
\* of the date, else the first run of four digits of the case number, else the
\* current year; a date without such a run leaves the case number in play.
C27_YearByPriority ==
    extracted.kind = "year" => extracted.year = yearByPriority(apiData)


\* every section the structured list or one of the four patterns gives
sectionsGiven(data) ==
    {data.ipc_sections[i] : i \in 1..Len(data.ipc_sections)} \cup
    UNION {{data.found[p][i] : i \in 1..Len(data.found[p])} : p \in Patterns}

\* C28: _extractIPCSections returns no section twice; when the structured list
\* and the four patterns give at most 20 distinct sections it returns each of
\* them once, and otherwise it returns at most 20.
C28_SectionsUnion ==
    extracted.kind = "sections" =>
        LET r == extracted.sections
            given == sectionsGiven(apiData) IN
        /\ \A i, j \in 1..Len(r) : r[i] = r[j] => i = j
        /\ Cardinality(given) <= 20 => {r[i] : i \in 1..Len(r)} = given
        /\ Cardinality(given) > 20 => Len(r) <= 20


\* C29: after any sequence of indexing operations the indexed flag of every
\* precedent is true exactly when its embedding is a vector, so that counting
\* indexed: true counts the precedents a similarity search can rank.
C29_IndexedIffEmbedded ==
    \A i \in 1..Len(store) : store[i].indexed <=> store[i].embedding.kind = "array"


\* C30: under any interleaving of concurrent first calls of getVectorStore at
\* most one VectorStore is constructed, initialize() is started at most once,
\* and no caller is resolved to the instance before that initialize() call
\* has completed.
C30_SingletonInitializedBeforeUse ==
    /\ created <= 1
    /\ initCalls <= 1
    /\ \A c \in Callers : pcG[c] = "done" =>
           received[c].instance = 1 /\ received[c].completed

\* ------------------------------------------- the collection under every writer
\* a sync batch of two fetches at most: two queries of one hit, or one query
\* of two hits
InitStore ==
    /\ store = <<>>
    /\ \/ queries = <<"q1", "q2">> /\ limit = 1
       \/ queries = <<"q1">> /\ limit = 2
    /\ strictQuery \in BOOLEAN
    /\ InitSync
    /\ InitSingle
    /\ searchOut = NoSearch
    /\ NoPure
    /\ NoOther
    /\ NoAnalyze

NextStore ==
    \/ SyncSearch
    \/ SyncDelay
    \/ SyncFetch
    \/ SyncCheck
    \/ SyncSave
    \/ SyncReturn
    \/ IndexCase
    \/ DeleteIndex
    \/ ReindexCase
    \/ IndexAllCasesStart
    \/ ReindexAllStart
    \/ ReindexStep
    \/ ReindexReturn

SpecStore == InitStore /\ [][NextStore]_vars


\* a step keeps every record of the collection: its _id, its case number and
\* the payload it was built from
RecordsKept ==
    /\ Len(store') >= Len(store)
    /\ \A i \in 1..Len(store) :
          /\ store'[i]._id = store[i]._id
          /\ store'[i].caseNumber = store[i].caseNumber
          /\ store'[i].origin = store[i].origin

\* C23: no step of fetchAndIndexCases, indexCase, indexAllCases, the reindexing
\* of the controller, reindexCase or deleteIndex, failed or not, removes a
\* record of the collection; so a record a batch wrote is still stored when a
\* later hit or query of the batch has failed.
C23_RecordsOnlyGrow == [][RecordsKept]_vars

\* the first query of a batch wrote a record, its second query failed at the
\* detail fetch, a reindexing run went over the record and its embedding was
\* cleared afterwards: the record is stored
C23_Witness ==
    /\ pc = "done"
    /\ inserted = 1
    /\ attemptLog = <<<<1, 1>>, <<2, 1>>>>
    /\ Len(failedCases) = 1
    /\ failedCases[1].query = "q2"
    /\ pcR = "done"
    /\ indexLog = <<[id |-> 1, ok |-> TRUE]>>
    /\ Len(store) = 1
    /\ store[1].embedding = NullEmbedding


\* the documents the indexCase calls of the run were made on, in call order
attemptedIds == [i \in 1..Len(indexLog) |-> indexLog[i].id]

\* an iteration of the run whose indexCase call failed
FailedIteration ==
    /\ Len(indexLog') = Len(indexLog) + 1
    /\ ~indexLog'[Len(indexLog')].ok

RunEmbeddedAll ==
    /\ runKind = "indexAllCases"
    /\ runResult.status = "returned"
    /\ \A i \in 1..Len(indexLog) : indexLog[i].ok

\* C25: when indexAllCases returns and every embedding call of the run
\* succeeded, every document that carried no vector when the run selected its
\* documents (never embedded since it was saved, or cleared by deleteIndex)
\* was selected and embedded by the run.
C25_RunEmbedsEveryUnembedded ==
    RunEmbeddedAll =>
        \A id \in runStart :
            \E i \in 1..Len(indexLog) : indexLog[i].id = id /\ indexLog[i].ok

Next ==
    \/ SyncSearch
    \/ SyncDelay
    \/ SyncFetch
    \/ SyncCheck
    \/ SyncSave
    \/ SyncReturn
    \/ FetchSingleRequest
    \/ FetchSingleCreate
    \/ FetchSingleIndex

Spec == Init /\ [][Next]_vars

====
